---- MODULE Spec2Model ----
(***************************************************************************)
(* Piper: a pipe-first language transpiled to JavaScript.                  *)
(* The model follows compile() of the command-line driver: a Lexer scans   *)
(* the source text into tokens, a Parser builds the AST by recursive       *)
(* descent, a CodeGenerator emits JavaScript text.                         *)
(*                                                                         *)
(* Text is a sequence of characters; a character is a one-character        *)
(* string, and the NUL character is written NUL.  Positions (pos) are      *)
(* 0-based as in the source, so the character under the cursor is          *)
(* source[pos + 1].                                                        *)
(***************************************************************************)
EXTENDS Integers, Sequences, FiniteSets, TLC

VARIABLES source, lexer, tokens, parser, ast, codegen, jsCode, error, pc,
          second, other, driver

vars ==
  <<source, lexer, tokens, parser, ast, codegen, jsCode, error, pc, second,
    other, driver>>

(***************************************************************************)
(* Bounds                                                                  *)
(***************************************************************************)
MaxPieces == 3      \* lexemes per generated lexer input
MaxOps == 2         \* binary operators per generated operator expression
MaxOverrun == 3     \* how far past the end of the text the cursor is followed

(***************************************************************************)
(* Characters                                                              *)
(***************************************************************************)
NUL == "NUL"
UNDEFINED == "undefined"

Digits == {"0", "1", "2", "3", "4", "5", "6", "7", "8", "9"}

Letters ==
  {"a", "b", "c", "d", "e", "f", "g", "h", "i", "j", "k", "l", "m",
   "n", "o", "p", "q", "r", "s", "t", "u", "v", "w", "x", "y", "z",
   "A", "B", "C", "D", "E", "F", "G", "H", "I", "J", "K", "L", "M",
   "N", "O", "P", "Q", "R", "S", "T", "U", "V", "W", "X", "Y", "Z"}

IdentStart == Letters \cup {"_"}
IdentPart == IdentStart \cup Digits

RECURSIVE Str(_)
Str(chars) ==
  IF chars = <<>> THEN "" ELSE Head(chars) \o Str(Tail(chars))

RECURSIVE Flatten(_)
Flatten(pieces) ==
  IF pieces = <<>> THEN <<>> ELSE Head(pieces) \o Flatten(Tail(pieces))

SeqsUpTo(S, n) == UNION {[1..k -> S] : k \in 0..n}

\* const x = value; Rest(x): the value is computed once, then named
Let(value, Rest(_)) == CHOOSE result \in {Rest(x) : x \in {value}} : TRUE

(***************************************************************************)
(* Lexer                                                                   *)
(***************************************************************************)
TokenType ==
  {"NUMBER", "STRING", "TRUE", "FALSE", "NULL",
   "IDENTIFIER", "LET", "VAR", "FN", "IF", "THEN", "ELSE", "WHILE", "FOR",
   "IN", "RETURN",
   "PLUS", "MINUS", "STAR", "SLASH", "PERCENT", "EQ", "EQEQ", "NEQ", "LT",
   "LTE", "GT", "GTE", "AND", "OR", "NOT", "PIPE",
   "LPAREN", "RPAREN", "LBRACE", "RBRACE", "LBRACKET", "RBRACKET", "COMMA",
   "SEMICOLON", "ARROW",
   "EOF", "NEWLINE"}

KEYWORDS ==
  [k \in {"let", "var", "fn", "if", "then", "else", "while", "for", "in",
          "return", "true", "false", "null"} |->
     CASE k = "let" -> "LET"
       [] k = "var" -> "VAR"
       [] k = "fn" -> "FN"
       [] k = "if" -> "IF"
       [] k = "then" -> "THEN"
       [] k = "else" -> "ELSE"
       [] k = "while" -> "WHILE"
       [] k = "for" -> "FOR"
       [] k = "in" -> "IN"
       [] k = "return" -> "RETURN"
       [] k = "true" -> "TRUE"
       [] k = "false" -> "FALSE"
       [] k = "null" -> "NULL"]

\* KEYWORDS is an object literal, so a property read that misses its own
\* keys falls through to Object.prototype.
ObjectPrototypeKeys ==
  {"constructor", "toString", "toLocaleString", "valueOf", "hasOwnProperty",
   "isPrototypeOf", "propertyIsEnumerable", "__proto__", "__defineGetter__",
   "__defineSetter__", "__lookupGetter__", "__lookupSetter__"}

\* KEYWORDS[value]: the own entry, else the inherited member (a function or
\* object, written "Object.prototype.<key>"), else undefined.
KeywordLookup(value) ==
  IF value \in DOMAIN KEYWORDS THEN KEYWORDS[value]
  ELSE IF value \in ObjectPrototypeKeys THEN "Object.prototype." \o value
  ELSE UNDEFINED

NewLexer ==
  [pos |-> 0, line |-> 1, column |-> 1, tokens |-> <<>>, pc |-> "loop",
   error |-> ""]

\* this.source[i]
SourceAt(src, i) == IF i + 1 \in 1..Len(src) THEN src[i + 1] ELSE UNDEFINED

\* a string character is never falsy, so `|| '\0'` only replaces undefined
Lexer_current(src, lx) ==
  IF SourceAt(src, lx.pos) = UNDEFINED THEN NUL ELSE SourceAt(src, lx.pos)

Lexer_peek(src, lx) ==
  IF SourceAt(src, lx.pos + 1) = UNDEFINED THEN NUL
  ELSE SourceAt(src, lx.pos + 1)

\* advance() that counts the line but keeps counting the column
Lexer_advanceNoReset(src, lx) ==
  IF Lexer_current(src, lx) = "\n"
  THEN [lx EXCEPT !.pos = @ + 1, !.line = @ + 1, !.column = @ + 1]
  ELSE [lx EXCEPT !.pos = @ + 1, !.column = @ + 1]

Lexer_advance(src, lx) ==
  IF Lexer_current(src, lx) = "\n"
  THEN [lx EXCEPT !.pos = @ + 1, !.line = @ + 1, !.column = 1]
  ELSE [lx EXCEPT !.pos = @ + 1, !.column = @ + 1]

Loc(lx) == [line |-> lx.line, column |-> lx.column]

Token(type, value, loc) == [type |-> type, value |-> value, loc |-> loc]

Push(lx, tok) == [lx EXCEPT !.tokens = Append(@, tok), !.pc = "loop"]

RECURSIVE skipWhitespace(_, _)
skipWhitespace(src, lx) ==
  IF Lexer_current(src, lx) \in {" ", "\t", "\r"}
  THEN Let(Lexer_advance(src, lx), LAMBDA l1 : skipWhitespace(src, l1))
  ELSE lx

\* the `if` of skipComment with the two increments; the loop is stepped by
\* skipCommentLoop
IsCommentStart(src, lx) ==
  Lexer_current(src, lx) = "/" /\ Lexer_peek(src, lx) = "/"

skipComment(src, lx) ==
  IF IsCommentStart(src, lx)
  THEN [lx EXCEPT !.pos = @ + 2, !.column = @ + 2, !.pc = "comment"]
  ELSE [lx EXCEPT !.pc = "token"]

\* while (this.source[this.pos] !== '\n' && this.source[this.pos] !== '\0')
CommentContinues(src, lx) ==
  SourceAt(src, lx.pos) # "\n" /\ SourceAt(src, lx.pos) # NUL

\* Past the end every position reads undefined, so the cursor is followed for
\* MaxOverrun characters there and then folded back to the first of them.
FoldOverrun(src, lx) ==
  IF lx.pos > Len(src) + MaxOverrun
  THEN [lx EXCEPT !.pos = @ - MaxOverrun, !.column = @ - MaxOverrun]
  ELSE lx

skipCommentLoop(src, lx) == FoldOverrun(src, Lexer_advance(src, lx))

\* characters of a class, appended to value while the cursor is on one
RECURSIVE ReadWhile(_, _, _, _)
ReadWhile(src, lx, class, value) ==
  IF Lexer_current(src, lx) \in class
  THEN Let(Lexer_advance(src, lx), LAMBDA l1 :
         ReadWhile(src, l1, class, Append(value, Lexer_current(src, lx))))
  ELSE [value |-> value, lx |-> lx]

readNumber(src, lx) ==
  LET start == Loc(lx)
      int == ReadWhile(src, lx, Digits, <<>>)
      frac == IF Lexer_current(src, int.lx) = "."
                 /\ Lexer_peek(src, int.lx) \in Digits
              THEN ReadWhile(src, Lexer_advance(src, int.lx), Digits,
                             Append(int.value, "."))
              ELSE int
  IN Push(frac.lx, Token("NUMBER", frac.value, start))

Unescape(next, quote) ==
  CASE next = "n" -> "\n"
    [] next = "t" -> "\t"
    [] next = "r" -> "\r"
    [] OTHER -> next

RECURSIVE StringLoop(_, _, _, _)
StringLoop(src, lx, quote, value) ==
  IF Lexer_current(src, lx) # quote /\ Lexer_current(src, lx) # NUL
  THEN IF Lexer_current(src, lx) = "\\"
       THEN Let(Lexer_advance(src, lx), LAMBDA l1 :
            Let(Lexer_advance(src, l1), LAMBDA l2 :
              StringLoop(src, l2, quote,
                         Append(value,
                                Unescape(Lexer_current(src, l1), quote)))))
       ELSE Let(Lexer_advance(src, lx), LAMBDA l1 :
              StringLoop(src, l1, quote,
                         Append(value, Lexer_current(src, lx))))
  ELSE [value |-> value, lx |-> lx]

ErrorAt(what, loc) ==
  what \o " at line " \o ToString(loc.line) \o ", column "
       \o ToString(loc.column)

Throw(lx, message) == [lx EXCEPT !.pc = "error", !.error = message]

\* the position the scan stopped at, where the input ended
UnterminatedEnd(lx, start) == Loc(lx)

UnterminatedStart(lx, start) == start

readString(src, lx) ==
  LET start == Loc(lx)
      quote == Lexer_current(src, lx)
      body == StringLoop(src, Lexer_advance(src, lx), quote, <<>>)
  IN IF Lexer_current(src, body.lx) = NUL
     THEN Throw(body.lx,
                ErrorAt("Unterminated string", UnterminatedStart(body.lx, start)))
     ELSE Push(Lexer_advance(src, body.lx), Token("STRING", body.value, start))

readIdentifier(src, lx) ==
  LET start == Loc(lx)
      id == ReadWhile(src, lx, IdentPart, <<>>)
      found == KeywordLookup(Str(id.value))
      type == IF found = UNDEFINED THEN "IDENTIFIER" ELSE found
  IN Push(id.lx, Token(type, id.value, start))

TwoCharOperators ==
  {<<"=", "=", "EQEQ">>, <<"!", "=", "NEQ">>, <<"<", "=", "LTE">>,
   <<">", "=", "GTE">>, <<"&", "&", "AND">>, <<"|", "|", "OR">>,
   <<"|", ">", "PIPE">>, <<"-", ">", "ARROW">>}

IsTwoChar(src, lx) ==
  \E op \in TwoCharOperators :
    Lexer_current(src, lx) = op[1] /\ Lexer_peek(src, lx) = op[2]

readTwoChar(src, lx) ==
  LET op == CHOOSE o \in TwoCharOperators :
              Lexer_current(src, lx) = o[1] /\ Lexer_peek(src, lx) = o[2]
  IN Push(Lexer_advance(src, Lexer_advance(src, lx)),
          Token(op[3], <<op[1], op[2]>>, Loc(lx)))

SingleCharTokens ==
  [c \in {"+", "-", "*", "/", "%", "=", "<", ">", "!", "(", ")", "{", "}",
          "[", "]", ",", ";", "|"} |->
     CASE c = "+" -> "PLUS"
       [] c = "-" -> "MINUS"
       [] c = "*" -> "STAR"
       [] c = "/" -> "SLASH"
       [] c = "%" -> "PERCENT"
       [] c = "=" -> "EQ"
       [] c = "<" -> "LT"
       [] c = ">" -> "GT"
       [] c = "!" -> "NOT"
       [] c = "(" -> "LPAREN"
       [] c = ")" -> "RPAREN"
       [] c = "{" -> "LBRACE"
       [] c = "}" -> "RBRACE"
       [] c = "[" -> "LBRACKET"
       [] c = "]" -> "RBRACKET"
       [] c = "," -> "COMMA"
       [] c = ";" -> "SEMICOLON"
       [] c = "|" -> "PIPE"]

readSingleChar(src, lx) ==
  LET loc == Loc(lx)
      char == Lexer_current(src, lx)
      l1 == Lexer_advance(src, lx)
  IN IF char \in DOMAIN SingleCharTokens
     THEN Push(l1, Token(SingleCharTokens[char], <<char>>, loc))
     ELSE Throw(l1, ErrorAt("Unexpected character '" \o char \o "'", loc))

pushEOF(lx) ==
  [lx EXCEPT !.tokens = Append(@, Token("EOF", <<>>, Loc(lx))),
             !.pc = "done"]

(* Guards of the steps of tokenize(), in the order the code tests them. *)
AtLoopExit(src, lx) == lx.pc = "loop" /\ Lexer_current(src, lx) = NUL
AtSkipWhitespace(src, lx) == lx.pc = "loop" /\ Lexer_current(src, lx) # NUL
AtSkipComment(src, lx) == lx.pc = "skipComment"
AtCommentLoop(src, lx) == lx.pc = "comment" /\ CommentContinues(src, lx)
AtCommentEnd(src, lx) == lx.pc = "comment" /\ ~CommentContinues(src, lx)
AtBreak(src, lx) == lx.pc = "token" /\ Lexer_current(src, lx) = NUL
AtNewline(src, lx) == lx.pc = "token" /\ Lexer_current(src, lx) = "\n"
AtNumber(src, lx) == lx.pc = "token" /\ Lexer_current(src, lx) \in Digits
AtString(src, lx) == lx.pc = "token" /\ Lexer_current(src, lx) \in {"\"", "'"}
AtIdentifier(src, lx) ==
  lx.pc = "token" /\ Lexer_current(src, lx) \in IdentStart
AtOther(src, lx) ==
  /\ lx.pc = "token"
  /\ Lexer_current(src, lx) \notin
       {NUL, "\n", "\"", "'"} \cup Digits \cup IdentStart
AtTwoChar(src, lx) == AtOther(src, lx) /\ IsTwoChar(src, lx)
AtSingleChar(src, lx) == AtOther(src, lx) /\ ~IsTwoChar(src, lx)
AtEOF(src, lx) == lx.pc = "eof"

\* one step of tokenize()
LexStep(src, lx) ==
  CASE AtLoopExit(src, lx) -> [lx EXCEPT !.pc = "eof"]
    [] AtSkipWhitespace(src, lx) ->
         [skipWhitespace(src, lx) EXCEPT !.pc = "skipComment"]
    [] AtSkipComment(src, lx) -> skipComment(src, lx)
    [] AtCommentLoop(src, lx) -> skipCommentLoop(src, lx)
    [] AtCommentEnd(src, lx) -> [lx EXCEPT !.pc = "token"]
    [] AtBreak(src, lx) -> [lx EXCEPT !.pc = "eof"]
    [] AtNewline(src, lx) ->
         Push(Lexer_advance(src, lx), Token("NEWLINE", <<"\\", "n">>, Loc(lx)))
    [] AtNumber(src, lx) -> readNumber(src, lx)
    [] AtString(src, lx) -> readString(src, lx)
    [] AtIdentifier(src, lx) -> readIdentifier(src, lx)
    [] AtTwoChar(src, lx) -> readTwoChar(src, lx)
    [] AtSingleChar(src, lx) -> readSingleChar(src, lx)
    [] AtEOF(src, lx) -> pushEOF(lx)
    [] OTHER -> lx

LexFinished(lx) == lx.pc \in {"done", "error"}

\* tokenize() run from lx until it returns or throws; a scan whose cursor
\* has left the text never does, and is handed back as it stands
RECURSIVE LexRun(_, _)
LexRun(src, lx) ==
  IF LexFinished(lx) \/ lx.pos > Len(src) + 1 THEN lx
  ELSE Let(LexStep(src, lx), LAMBDA l1 : LexRun(src, l1))

\* tokenize() called on the lexer lx: the token list is a local of the call,
\* the cursor, the line and the column are the fields of lx
Lexer_tokenize(src, lx) ==
  LexRun(src, [lx EXCEPT !.tokens = <<>>, !.pc = "loop", !.error = ""])

(***************************************************************************)
(* Diagnostics                                                             *)
(***************************************************************************)
TOKEN_DISPLAY_NAMES ==
  [t \in TokenType |->
     CASE t = "NUMBER" -> "number"
       [] t = "STRING" -> "string"
       [] t = "TRUE" -> "'true'"
       [] t = "FALSE" -> "'false'"
       [] t = "NULL" -> "'null'"
       [] t = "IDENTIFIER" -> "identifier"
       [] t = "LET" -> "'let'"
       [] t = "VAR" -> "'var'"
       [] t = "FN" -> "'fn'"
       [] t = "IF" -> "'if'"
       [] t = "THEN" -> "'then'"
       [] t = "ELSE" -> "'else'"
       [] t = "WHILE" -> "'while'"
       [] t = "FOR" -> "'for'"
       [] t = "IN" -> "'in'"
       [] t = "RETURN" -> "'return'"
       [] t = "PLUS" -> "'+'"
       [] t = "MINUS" -> "'-'"
       [] t = "STAR" -> "'*'"
       [] t = "SLASH" -> "'/'"
       [] t = "PERCENT" -> "'%'"
       [] t = "EQ" -> "'='"
       [] t = "EQEQ" -> "'=='"
       [] t = "NEQ" -> "'!='"
       [] t = "LT" -> "'<'"
       [] t = "LTE" -> "'<='"
       [] t = "GT" -> "'>'"
       [] t = "GTE" -> "'>='"
       [] t = "AND" -> "'&&'"
       [] t = "OR" -> "'||'"
       [] t = "NOT" -> "'!'"
       [] t = "PIPE" -> "'|>'"
       [] t = "LPAREN" -> "'('"
       [] t = "RPAREN" -> "')'"
       [] t = "LBRACE" -> "'{'"
       [] t = "RBRACE" -> "'}'"
       [] t = "LBRACKET" -> "'['"
       [] t = "RBRACKET" -> "']'"
       [] t = "COMMA" -> "','"
       [] t = "SEMICOLON" -> "';'"
       [] t = "ARROW" -> "'->'"
       [] t = "EOF" -> "end of file"
       [] t = "NEWLINE" -> "newline"]

\* the kind's own name, whatever the table says
DisplayRaw(type) == type

\* TOKEN_DISPLAY_NAMES[type] || type
Display(type) ==
  IF type \in DOMAIN TOKEN_DISPLAY_NAMES THEN TOKEN_DISPLAY_NAMES[type]
  ELSE type

PiperError(message, line, column) ==
  [name |-> "PiperError", message |-> message, line |-> line,
   column |-> column]

(***************************************************************************)
(* Parser.  Every parse routine takes the token array and the cursor and   *)
(* yields either [ok |-> TRUE, node, pos] or [ok |-> FALSE, err, pos].     *)
(***************************************************************************)
\* tokens.filter(t => t.type !== TokenType.NEWLINE)
NewParser(toks) ==
  [tokens |-> SelectSeq(toks, LAMBDA t : t.type # "NEWLINE"), pos |-> 0]

Parser_current(toks, pos) ==
  IF pos < Len(toks) THEN toks[pos + 1] ELSE toks[Len(toks)]

Parser_peek(toks, pos) ==
  IF pos + 1 < Len(toks) THEN toks[pos + 2] ELSE toks[Len(toks)]

Parser_match(toks, pos, types) == Parser_current(toks, pos).type \in types

Ok(node, pos) == [ok |-> TRUE, node |-> node, pos |-> pos]

Fail(message, token, pos) ==
  [ok |-> FALSE,
   err |-> PiperError(message, token.loc.line, token.loc.column),
   pos |-> pos]

\* on success the node is the consumed token
Parser_expect(toks, pos, type) ==
  LET token == Parser_current(toks, pos)
  IN IF token.type # type
     THEN Fail("Expected " \o Display(type) \o " but found "
                 \o Display(token.type), token, pos)
     ELSE Ok(token, pos + 1)

\* this.advance() after an expression statement whatever the token is
OptionalSemicolonAlways(toks, pos) == pos + 1

\* if (this.match(TokenType.SEMICOLON)) this.advance();
OptionalSemicolon(toks, pos) ==
  IF Parser_match(toks, pos, {"SEMICOLON"}) THEN pos + 1 ELSE pos

\* if (this.match(TokenType.COMMA)) this.advance();
SkipComma(toks, pos) ==
  IF Parser_match(toks, pos, {"COMMA"}) THEN pos + 1 ELSE pos

\* A routine that throws ends every caller up to compile(): the rest of a
\* routine runs on the result r of a step only when the step returned.
Try(r, Rest(_)) == IF r.ok THEN Rest(r) ELSE r

\* A routine calls a routine that is defined after it through parseRoutine:
\* parseRoutine("parseExpression", toks, pos)
\* is this.parseExpression() with the cursor at pos.
RECURSIVE parseRoutine(_, _, _)
RECURSIVE TierLoop(_, _, _, _), PipeLoop(_, _, _), CallLoop(_, _, _)
RECURSIVE TierLoops(_, _, _, _)
RECURSIVE ParamLoop(_, _, _), ExpressionListLoop(_, _, _)
RECURSIVE StatementLoop(_, _, _, _)

\* do { skip ','; params.push(expect(IDENTIFIER).value) } while (match(','))
ParamLoop(toks, pos, params) ==
  Try(Parser_expect(toks, SkipComma(toks, pos), "IDENTIFIER"), LAMBDA name :
    IF Parser_match(toks, name.pos, {"COMMA"})
    THEN ParamLoop(toks, name.pos, Append(params, Str(name.node.value)))
    ELSE Ok(Append(params, Str(name.node.value)), name.pos))

\* do { skip ','; list.push(parseExpression()) } while (match(','))
ExpressionListLoop(toks, pos, list) ==
  Try(parseRoutine("parseExpression", toks, SkipComma(toks, pos)),
      LAMBDA item :
    IF Parser_match(toks, item.pos, {"COMMA"})
    THEN ExpressionListLoop(toks, item.pos, Append(list, item.node))
    ELSE Ok(Append(list, item.node), item.pos))

\* while (!stop) list.push(parseStatement())
StatementLoop(toks, pos, stop, list) ==
  IF Parser_match(toks, pos, stop) THEN Ok(list, pos)
  ELSE Try(parseRoutine("parseStatement", toks, pos), LAMBDA stmt :
         StatementLoop(toks, stmt.pos, stop, Append(list, stmt.node)))

(* Expressions *)
\* the tiers with + - binding tighter than * / %
TierOperatorsSwapped(tier) ==
  CASE tier = "parseLogicalOr" -> {"OR"}
    [] tier = "parseLogicalAnd" -> {"AND"}
    [] tier = "parseEquality" -> {"EQEQ", "NEQ"}
    [] tier = "parseComparison" -> {"LT", "LTE", "GT", "GTE"}
    [] tier = "parseAdditive" -> {"STAR", "SLASH", "PERCENT"}
    [] tier = "parseMultiplicative" -> {"PLUS", "MINUS"}

TierOperators(tier) ==
  CASE tier = "parseLogicalOr" -> {"OR"}
    [] tier = "parseLogicalAnd" -> {"AND"}
    [] tier = "parseEquality" -> {"EQEQ", "NEQ"}
    [] tier = "parseComparison" -> {"LT", "LTE", "GT", "GTE"}
    [] tier = "parseAdditive" -> {"PLUS", "MINUS"}
    [] tier = "parseMultiplicative" -> {"STAR", "SLASH", "PERCENT"}

\* the routine a tier parses its operands with
NextTier(tier) ==
  CASE tier = "parseLogicalOr" -> "parseLogicalAnd"
    [] tier = "parseLogicalAnd" -> "parseEquality"
    [] tier = "parseEquality" -> "parseComparison"
    [] tier = "parseComparison" -> "parseAdditive"
    [] tier = "parseAdditive" -> "parseMultiplicative"
    [] tier = "parseMultiplicative" -> "parseUnary"

BinaryExpression(operator, left, right) ==
  [type |-> "BinaryExpression", operator |-> operator, left |-> left,
   right |-> right, loc |-> left.loc]

PipeExpression(left, right, loc) ==
  [type |-> "PipeExpression", left |-> left, right |-> right, loc |-> loc]

\* the arguments between '(' and ')', the element list between '[' and ']'
ExpressionList(toks, pos, close) ==
  IF Parser_match(toks, pos, {close}) THEN Ok(<<>>, pos)
  ELSE ExpressionListLoop(toks, pos, <<>>)

\* the parameters of a function between '(' and ')', of a lambda between bars
ParamList(toks, pos, close) ==
  IF Parser_match(toks, pos, {close}) THEN Ok(<<>>, pos)
  ELSE ParamLoop(toks, pos, <<>>)

(* Literals.  A JavaScript value is written [t |-> typeof, v |-> text]. *)
RECURSIVE StripLeadingZeros(_), StripTrailingZeros(_)
StripLeadingZeros(digits) ==
  IF Len(digits) > 1 /\ Head(digits) = "0"
  THEN StripLeadingZeros(Tail(digits)) ELSE digits

StripTrailingZeros(digits) ==
  IF digits # <<>> /\ digits[Len(digits)] = "0"
  THEN StripTrailingZeros(SubSeq(digits, 1, Len(digits) - 1)) ELSE digits

\* parseFloat of a NUMBER lexeme, the number written as String() prints it
parseFloat(chars) ==
  LET dot == IF \E i \in 1..Len(chars) : chars[i] = "."
             THEN CHOOSE i \in 1..Len(chars) : chars[i] = "."
             ELSE Len(chars) + 1
      int == StripLeadingZeros(SubSeq(chars, 1, dot - 1))
      frac == StripTrailingZeros(SubSeq(chars, dot + 1, Len(chars)))
  IN [t |-> "number",
      v |-> IF frac = <<>> THEN int ELSE int \o <<".">> \o frac]

\* a literal node tagged by the kind of its value
LiteralByKind(value, raw, loc) ==
  [type |-> value.t, value |-> value, raw |-> raw, loc |-> loc]

Literal(value, raw, loc) ==
  [type |-> "Literal", value |-> value, raw |-> raw, loc |-> loc]

LiteralOf(token) ==
  CASE token.type = "NUMBER" ->
         Literal(parseFloat(token.value), Str(token.value), token.loc)
    [] token.type = "STRING" ->
         Literal([t |-> "string", v |-> token.value],
                 "\"" \o Str(token.value) \o "\"", token.loc)
    [] token.type = "TRUE" ->
         Literal([t |-> "boolean", v |-> <<"t", "r", "u", "e">>], "true",
                 token.loc)
    [] token.type = "FALSE" ->
         Literal([t |-> "boolean", v |-> <<"f", "a", "l", "s", "e">>],
                 "false", token.loc)
    [] token.type = "NULL" ->
         Literal([t |-> "null", v |-> <<"n", "u", "l", "l">>], "null",
                 token.loc)

\* parsePrimary that returns at the end of the tokens where the source
\* throws, the cursor left where it is
parsePrimaryAtEnd(toks, pos) ==
  LET token == Parser_current(toks, pos)
  IN CASE token.type = "IF" -> parseRoutine("parseIfExpression", toks, pos)
       [] token.type = "LBRACE" ->
            parseRoutine("parseBlockExpression", toks, pos)
       [] token.type = "PIPE" -> parseRoutine("parseLambda", toks, pos)
       [] token.type = "LBRACKET" ->
            parseRoutine("parseArrayLiteral", toks, pos)
       [] token.type = "LPAREN" ->
            Try(parseRoutine("parseExpression", toks, pos + 1), LAMBDA expr :
            Try(Parser_expect(toks, expr.pos, "RPAREN"), LAMBDA close :
              Ok(expr.node, close.pos)))
       [] token.type \in {"NUMBER", "STRING", "TRUE", "FALSE", "NULL"} ->
            Ok(LiteralOf(token), pos + 1)
       [] token.type = "IDENTIFIER" ->
            Ok([type |-> "Identifier", name |-> Str(token.value),
                loc |-> token.loc], pos + 1)
       [] token.type = "EOF" ->
            Ok([type |-> "Identifier", name |-> "", loc |-> token.loc], pos)
       [] OTHER ->
            Fail("Unexpected token " \o Display(token.type), token, pos)

parsePrimary(toks, pos) ==
  LET token == Parser_current(toks, pos)
  IN CASE token.type = "IF" -> parseRoutine("parseIfExpression", toks, pos)
       [] token.type = "LBRACE" ->
            parseRoutine("parseBlockExpression", toks, pos)
       [] token.type = "PIPE" -> parseRoutine("parseLambda", toks, pos)
       [] token.type = "LBRACKET" ->
            parseRoutine("parseArrayLiteral", toks, pos)
       [] token.type = "LPAREN" ->
            Try(parseRoutine("parseExpression", toks, pos + 1), LAMBDA expr :
            Try(Parser_expect(toks, expr.pos, "RPAREN"), LAMBDA close :
              Ok(expr.node, close.pos)))
       [] token.type \in {"NUMBER", "STRING", "TRUE", "FALSE", "NULL"} ->
            Ok(LiteralOf(token), pos + 1)
       [] token.type = "IDENTIFIER" ->
            Ok([type |-> "Identifier", name |-> Str(token.value),
                loc |-> token.loc], pos + 1)
       [] OTHER ->
            Fail("Unexpected token " \o Display(token.type), token, pos)

CallLoop(toks, pos, expr) ==
  IF Parser_match(toks, pos, {"LPAREN"})
  THEN Try(ExpressionList(toks, pos + 1, "RPAREN"), LAMBDA args :
       Try(Parser_expect(toks, args.pos, "RPAREN"), LAMBDA close :
         CallLoop(toks, close.pos,
                  [type |-> "CallExpression", callee |-> expr,
                   args |-> args.node, loc |-> expr.loc])))
  ELSE Ok(expr, pos)

parseCall(toks, pos) ==
  Try(parsePrimary(toks, pos), LAMBDA expr :
    CallLoop(toks, expr.pos, expr.node))

parseUnary(toks, pos) ==
  IF Parser_match(toks, pos, {"NOT", "MINUS"})
  THEN Try(parseRoutine("parseUnary", toks, pos + 1), LAMBDA operand :
         Ok([type |-> "UnaryExpression",
             operator |-> Str(toks[pos + 1].value),
             operand |-> operand.node, loc |-> toks[pos + 1].loc],
            operand.pos))
  ELSE parseCall(toks, pos)

\* while (match(tier operators)) { operator; right = next tier; left = ... }
TierLoop(toks, pos, left, tier) ==
  IF Parser_match(toks, pos, TierOperators(tier))
  THEN Try(parseRoutine(NextTier(tier), toks, pos + 1), LAMBDA right :
         TierLoop(toks, right.pos,
                  BinaryExpression(Str(toks[pos + 1].value), left,
                                   right.node), tier))
  ELSE Ok(left, pos)

\* the binary tiers, from the loosest to the tightest
TierOrder ==
  <<"parseLogicalOr", "parseLogicalAnd", "parseEquality", "parseComparison",
    "parseAdditive", "parseMultiplicative">>

BinaryTiers == {TierOrder[i] : i \in DOMAIN TierOrder}

TierIndex(tier) == CHOOSE i \in 1..Len(TierOrder) : TierOrder[i] = tier

\* Every tier opens with `let left = <the next tier>()`, and the tightest
\* with `let left = this.parseUnary()`: the calls go straight down to
\* parseUnary, and as they return each tier from the tightest out to the one
\* called runs its while loop on what the tier below returned.  r is that
\* result, from the tier whose loop runs next, to the tier called.
TierLoops(toks, r, from, to) ==
  IF ~r.ok \/ from < to THEN r
  ELSE TierLoops(toks, TierLoop(toks, r.pos, r.node, TierOrder[from]),
                 from - 1, to)

\* parseLogicalOr .. parseMultiplicative: the six binary tiers
parseBinaryTier(toks, pos, tier) ==
  TierLoops(toks, parseUnary(toks, pos), Len(TierOrder), TierIndex(tier))

parseLogicalOr(toks, pos) == parseBinaryTier(toks, pos, "parseLogicalOr")

\* the right side of |> is whatever parseLogicalOr returns
PipeLoop(toks, pos, left) ==
  IF Parser_match(toks, pos, {"PIPE"})
  THEN Try(parseLogicalOr(toks, pos + 1), LAMBDA right :
         PipeLoop(toks, right.pos,
                  PipeExpression(left, right.node, toks[pos + 1].loc)))
  ELSE Ok(left, pos)

parsePipe(toks, pos) ==
  Try(parseLogicalOr(toks, pos), LAMBDA left :
    PipeLoop(toks, left.pos, left.node))

parseExpression(toks, pos) == parsePipe(toks, pos)

\* if (this.match(TokenType.THEN)) this.advance();
SkipThen(toks, pos) ==
  IF Parser_match(toks, pos, {"THEN"}) THEN pos + 1 ELSE pos

parseBlockExpression(toks, pos) ==
  Try(Parser_expect(toks, pos, "LBRACE"), LAMBDA open :
  Try(StatementLoop(toks, open.pos, {"RBRACE", "EOF"}, <<>>),
      LAMBDA statements :
  Try(Parser_expect(toks, statements.pos, "RBRACE"), LAMBDA close :
    Ok([type |-> "BlockExpression", statements |-> statements.node,
        loc |-> open.node.loc], close.pos))))

\* a branch or a lambda body: a block when it opens with '{'
BlockOrExpression(toks, pos) ==
  IF Parser_match(toks, pos, {"LBRACE"})
  THEN parseBlockExpression(toks, pos)
  ELSE parseExpression(toks, pos)

\* after 'else' every branch is a full expression
ElseBranchExpression(toks, pos) == parseExpression(toks, pos)

\* after 'else': parsePrimary on '{' or 'if', parseExpression otherwise
ElseBranch(toks, pos) ==
  IF Parser_match(toks, pos, {"LBRACE", "IF"})
  THEN parsePrimary(toks, pos)
  ELSE parseExpression(toks, pos)

parseIfExpression(toks, pos) ==
  Try(parseExpression(toks, pos + 1), LAMBDA condition :
  Try(BlockOrExpression(toks, SkipThen(toks, condition.pos)),
      LAMBDA thenBranch :
    IF Parser_match(toks, thenBranch.pos, {"ELSE"})
    THEN Try(ElseBranch(toks, thenBranch.pos + 1), LAMBDA elseBranch :
           Ok([type |-> "IfExpression", condition |-> condition.node,
               thenBranch |-> thenBranch.node,
               elseBranch |-> elseBranch.node, loc |-> toks[pos + 1].loc],
              elseBranch.pos))
    ELSE Ok([type |-> "IfExpression", condition |-> condition.node,
             thenBranch |-> thenBranch.node, loc |-> toks[pos + 1].loc],
            thenBranch.pos)))

parseLambda(toks, pos) ==
  Try(Parser_expect(toks, pos, "PIPE"), LAMBDA open :
  Try(ParamList(toks, open.pos, "PIPE"), LAMBDA params :
  Try(Parser_expect(toks, params.pos, "PIPE"), LAMBDA close :
  Try(BlockOrExpression(toks, close.pos), LAMBDA body :
    Ok([type |-> "Lambda", params |-> params.node, body |-> body.node,
        loc |-> open.node.loc], body.pos)))))

parseArrayLiteral(toks, pos) ==
  Try(Parser_expect(toks, pos, "LBRACKET"), LAMBDA open :
  Try(ExpressionList(toks, open.pos, "RBRACKET"), LAMBDA elements :
  Try(Parser_expect(toks, elements.pos, "RBRACKET"), LAMBDA close :
    Ok([type |-> "ArrayLiteral", elements |-> elements.node,
        loc |-> open.node.loc], close.pos))))

(* Statements *)
\* let and var differ in the node tag only
parseDeclaration(toks, pos, tag) ==
  Try(Parser_expect(toks, pos + 1, "IDENTIFIER"), LAMBDA name :
  Try(Parser_expect(toks, name.pos, "EQ"), LAMBDA eq :
  Try(parseExpression(toks, eq.pos), LAMBDA init :
    Ok([type |-> tag, name |-> Str(name.node.value), init |-> init.node,
        loc |-> toks[pos + 1].loc],
       OptionalSemicolon(toks, init.pos)))))

parseLetDeclaration(toks, pos) == parseDeclaration(toks, pos, "LetDeclaration")

parseVarDeclaration(toks, pos) == parseDeclaration(toks, pos, "VarDeclaration")

FunctionDeclaration(name, params, body, isExpression, loc) ==
  [type |-> "FunctionDeclaration", name |-> name, params |-> params,
   body |-> body, isExpression |-> isExpression, loc |-> loc]

\* an expression body takes an optional ';', a block body does not
parseFunctionDeclaration(toks, pos) ==
  Try(Parser_expect(toks, pos + 1, "IDENTIFIER"), LAMBDA name :
  Try(Parser_expect(toks, name.pos, "LPAREN"), LAMBDA open :
  Try(ParamList(toks, open.pos, "RPAREN"), LAMBDA params :
  Try(Parser_expect(toks, params.pos, "RPAREN"), LAMBDA close :
    IF Parser_match(toks, close.pos, {"EQ"})
    THEN Try(parseExpression(toks, close.pos + 1),
             LAMBDA body :
           Ok(FunctionDeclaration(Str(name.node.value), params.node,
                                  body.node, TRUE, toks[pos + 1].loc),
              OptionalSemicolon(toks, body.pos)))
    ELSE Try(parseBlockExpression(toks, close.pos),
             LAMBDA body :
           Ok(FunctionDeclaration(Str(name.node.value), params.node,
                                  body.node, FALSE, toks[pos + 1].loc),
              body.pos))))))

parseAssignment(toks, pos) ==
  Try(Parser_expect(toks, pos, "IDENTIFIER"), LAMBDA name :
  Try(Parser_expect(toks, name.pos, "EQ"), LAMBDA eq :
  Try(parseExpression(toks, eq.pos), LAMBDA value :
    Ok([type |-> "Assignment", name |-> Str(name.node.value),
        value |-> value.node, loc |-> Parser_current(toks, pos).loc],
       OptionalSemicolon(toks, value.pos)))))

\* a bare return leaves the ';' that stopped it in the stream
parseReturnStatement(toks, pos) ==
  IF Parser_match(toks, pos + 1, {"SEMICOLON", "RBRACE", "EOF"})
  THEN Ok([type |-> "ReturnStatement", loc |-> toks[pos + 1].loc], pos + 1)
  ELSE Try(parseExpression(toks, pos + 1), LAMBDA value :
         Ok([type |-> "ReturnStatement", value |-> value.node,
             loc |-> toks[pos + 1].loc],
            OptionalSemicolon(toks, value.pos)))

parseWhileStatement(toks, pos) ==
  Try(parseExpression(toks, pos + 1), LAMBDA condition :
  Try(parseBlockExpression(toks, condition.pos),
      LAMBDA body :
    Ok([type |-> "WhileStatement", condition |-> condition.node,
        body |-> body.node, loc |-> toks[pos + 1].loc], body.pos)))

parseForStatement(toks, pos) ==
  Try(Parser_expect(toks, pos + 1, "IDENTIFIER"), LAMBDA variable :
  Try(Parser_expect(toks, variable.pos, "IN"), LAMBDA in :
  Try(parseExpression(toks, in.pos), LAMBDA iterable :
  Try(parseBlockExpression(toks, iterable.pos),
      LAMBDA body :
    Ok([type |-> "ForStatement", variable |-> Str(variable.node.value),
        iterable |-> iterable.node, body |-> body.node,
        loc |-> toks[pos + 1].loc], body.pos)))))

parseStatement(toks, pos) ==
  CASE Parser_match(toks, pos, {"LET"}) -> parseLetDeclaration(toks, pos)
    [] Parser_match(toks, pos, {"VAR"}) -> parseVarDeclaration(toks, pos)
    [] Parser_match(toks, pos, {"FN"}) -> parseFunctionDeclaration(toks, pos)
    [] Parser_match(toks, pos, {"RETURN"}) -> parseReturnStatement(toks, pos)
    [] Parser_match(toks, pos, {"WHILE"}) -> parseWhileStatement(toks, pos)
    [] Parser_match(toks, pos, {"FOR"}) -> parseForStatement(toks, pos)
    [] /\ Parser_current(toks, pos).type = "IDENTIFIER"
       /\ Parser_peek(toks, pos).type = "EQ" -> parseAssignment(toks, pos)
    [] OTHER ->
         Try(parseExpression(toks, pos), LAMBDA expr :
           Ok([type |-> "ExpressionStatement", expression |-> expr.node,
               loc |-> expr.node.loc],
              OptionalSemicolon(toks, expr.pos)))

parseRoutine(routine, toks, pos) ==
  CASE routine = "parseStatement" -> parseStatement(toks, pos)
    [] routine = "parseExpression" -> parseExpression(toks, pos)
    [] routine \in BinaryTiers -> parseBinaryTier(toks, pos, routine)
    [] routine = "parseUnary" -> parseUnary(toks, pos)
    [] routine = "parseCall" -> parseCall(toks, pos)
    [] routine = "parsePrimary" -> parsePrimary(toks, pos)
    [] routine = "parseIfExpression" -> parseIfExpression(toks, pos)
    [] routine = "parseBlockExpression" -> parseBlockExpression(toks, pos)
    [] routine = "parseLambda" -> parseLambda(toks, pos)
    [] routine = "parseArrayLiteral" -> parseArrayLiteral(toks, pos)

\* parse() called with the cursor this.pos at pos
Parser_parse(toks, pos) ==
  Try(StatementLoop(toks, pos, {"EOF"}, <<>>), LAMBDA body :
    Ok([type |-> "Program", body |-> body.node], body.pos))

(***************************************************************************)
(* Code generator.  The generator state g is [indentLevel, output]; an     *)
(* expression routine yields [ok |-> TRUE, text, g], a statement routine   *)
(* [ok |-> TRUE, g], and a throw [ok |-> FALSE, err, g] with the state at  *)
(* the throw.                                                              *)
(***************************************************************************)
BUILTINS == {"print", "len", "map", "filter", "reduce", "range", "sum"}

NewCodeGenerator == [indentLevel |-> 0, output |-> <<>>]

RECURSIVE Repeat(_, _)
Repeat(str, n) == IF n <= 0 THEN "" ELSE str \o Repeat(str, n - 1)

RECURSIVE Join(_, _)
Join(texts, sep) ==
  IF texts = <<>> THEN ""
  ELSE IF Len(texts) = 1 THEN texts[1]
  ELSE texts[1] \o sep \o Join(Tail(texts), sep)

indent(g) == Repeat("  ", g.indentLevel)

emit(g, code) == [g EXCEPT !.output = Append(@, code)]

emitLine(g, code) == emit(g, indent(g) \o code \o "\n")

Text(text, g) == [ok |-> TRUE, text |-> text, g |-> g]

Done(g) == [ok |-> TRUE, g |-> g]

Raise(message, g) == [ok |-> FALSE, err |-> message, g |-> g]


\* the text of a built-in callee
Qualified(name) == "__piper." \o name

\* a callee named without looking at BUILTINS
CalleeNameBare(name) == name

CalleeName(name) == IF name \in BUILTINS THEN Qualified(name) ELSE name

JsonEscape(c) ==
  CASE c = "\"" -> "\\\""
    [] c = "\\" -> "\\\\"
    [] c = "\n" -> "\\n"
    [] c = "\t" -> "\\t"
    [] c = "\r" -> "\\r"
    [] c = NUL -> "\\u0000"
    [] OTHER -> c

RECURSIVE JsonBody(_)
JsonBody(chars) ==
  IF chars = <<>> THEN "" ELSE JsonEscape(Head(chars)) \o JsonBody(Tail(chars))

\* JSON.stringify of a string
JsonStringify(chars) == "\"" \o JsonBody(chars) \o "\""

generateLiteral(node) ==
  IF node.value.t = "string" THEN JsonStringify(node.value.v)
  ELSE IF node.value.t = "null" THEN "null"
  ELSE Str(node.value.v)

RECURSIVE generateExpression(_, _), generateNode(_, _)
RECURSIVE generateBlockBody(_, _), generateStatements(_, _)
RECURSIVE generateList(_, _, _), BlockBodyLoop(_, _, _)

\* nodes.map(n => this.generateExpression(n)), texts in order
generateList(nodes, g, texts) ==
  IF nodes = <<>> THEN [ok |-> TRUE, texts |-> texts, g |-> g]
  ELSE Try(generateExpression(Head(nodes), g), LAMBDA item :
         generateList(Tail(nodes), item.g, Append(texts, item.text)))

\* every operator emitted as written
MapOperatorLoose(operator) == operator

\* '==' and '!=' become the strict operators
MapOperator(operator) ==
  IF operator = "==" THEN "==="
  ELSE IF operator = "!=" THEN "!==" ELSE operator

generateBinaryExpression(node, g) ==
  Try(generateExpression(node.left, g), LAMBDA left :
  Try(generateExpression(node.right, left.g), LAMBDA right :
    Text("(" \o left.text \o " " \o MapOperator(node.operator) \o " "
           \o right.text \o ")", right.g)))

generateUnaryExpression(node, g) ==
  Try(generateExpression(node.operand, g), LAMBDA operand :
    Text("(" \o node.operator \o operand.text \o ")", operand.g))

\* the piped value put after the written arguments
PipeArgumentsLast(left, args) == args \o <<left>>

\* [left, ...call.args.map(...)]
PipeArguments(left, args) == <<left>> \o args

\* x |> f(y, z): the callee text is generated only when it is no Identifier
PipeCall(call, left, g) ==
  Try(generateList(call.args, g, <<>>), LAMBDA rest :
    IF call.callee.type = "Identifier"
    THEN Text(CalleeName(call.callee.name) \o "("
                \o Join(PipeArguments(left, rest.texts), ", ") \o ")",
              rest.g)
    ELSE Try(generateExpression(call.callee, rest.g), LAMBDA callee :
           Text(callee.text \o "("
                  \o Join(PipeArguments(left, rest.texts), ", ") \o ")",
                callee.g)))

generatePipeExpression(node, g) ==
  Try(generateExpression(node.left, g), LAMBDA left :
    IF node.right.type = "Identifier"
    THEN Text(CalleeName(node.right.name) \o "(" \o left.text \o ")", left.g)
    ELSE IF node.right.type = "CallExpression"
    THEN PipeCall(node.right, left.text, left.g)
    ELSE Raise("Invalid pipe target: " \o node.right.type, left.g))

generateCallExpression(node, g) ==
  Try(generateExpression(node.callee, g), LAMBDA callee :
  Try(generateList(node.args, callee.g, <<>>), LAMBDA args :
    IF node.callee.type = "Identifier" /\ node.callee.name \in BUILTINS
    THEN Text(Qualified(node.callee.name) \o "(" \o Join(args.texts, ", ")
                \o ")", args.g)
    ELSE Text(callee.text \o "(" \o Join(args.texts, ", ") \o ")", args.g)))

\* a block body generated into the buffer of the enclosing statement
NestedBodyShared(block, g) ==
  Try(generateBlockBody(block, [g EXCEPT !.indentLevel = @ + 1]), LAMBDA inner :
    Text(Join(inner.g.output, ""),
         [indentLevel |-> inner.g.indentLevel - 1,
          output |-> inner.g.output]))

\* a block body generated into a fresh buffer one level deeper; the saved
\* buffer and the level are put back only when the body returns normally
NestedBody(block, g) ==
  Try(generateBlockBody(block,
        [indentLevel |-> g.indentLevel + 1, output |-> <<>>]), LAMBDA inner :
    Text(Join(inner.g.output, ""),
         [indentLevel |-> inner.g.indentLevel - 1, output |-> g.output]))

generateLambda(node, g) ==
  IF node.body.type = "BlockExpression"
  THEN Try(NestedBody(node.body, g), LAMBDA body :
         Text("((" \o Join(node.params, ", ") \o ") => " \o "{\n"
                \o body.text \o indent(body.g) \o "}" \o ")", body.g))
  ELSE Try(generateExpression(node.body, g), LAMBDA body :
         Text("((" \o Join(node.params, ", ") \o ") => " \o body.text
                \o ")", body.g))

generateArrayLiteral(node, g) ==
  Try(generateList(node.elements, g, <<>>), LAMBDA elements :
    Text("[" \o Join(elements.texts, ", ") \o "]", elements.g))

generateIfExpression(node, g) ==
  Try(generateExpression(node.condition, g), LAMBDA condition :
  Try(generateExpression(node.thenBranch, condition.g), LAMBDA thenBranch :
    IF "elseBranch" \in DOMAIN node
    THEN Try(generateExpression(node.elseBranch, thenBranch.g),
             LAMBDA elseBranch :
           Text("(" \o condition.text \o " ? " \o thenBranch.text \o " : "
                  \o elseBranch.text \o ")", elseBranch.g))
    ELSE Text("(" \o condition.text \o " ? " \o thenBranch.text
                \o " : undefined)", thenBranch.g)))

\* generateBlockExpression without its `this.indentLevel--`
generateBlockExpressionDeeper(node, g) ==
  Try(NestedBody(node, g), LAMBDA body :
    Text("(() => {\n" \o body.text
           \o indent([body.g EXCEPT !.indentLevel = @ + 1]) \o "})()",
         [body.g EXCEPT !.indentLevel = @ + 1]))

generateBlockExpression(node, g) ==
  Try(NestedBody(node, g), LAMBDA body :
    Text("(() => {\n" \o body.text \o indent(body.g) \o "})()", body.g))

\* the text of an Identifier in value position
generateIdentifier(node) == node.name

generateExpression(node, g) ==
  CASE node.type = "BinaryExpression" -> generateBinaryExpression(node, g)
    [] node.type = "UnaryExpression" -> generateUnaryExpression(node, g)
    [] node.type = "PipeExpression" -> generatePipeExpression(node, g)
    [] node.type = "CallExpression" -> generateCallExpression(node, g)
    [] node.type = "Lambda" -> generateLambda(node, g)
    [] node.type = "Identifier" -> Text(generateIdentifier(node), g)
    [] node.type = "Literal" -> Text(generateLiteral(node), g)
    [] node.type = "ArrayLiteral" -> generateArrayLiteral(node, g)
    [] node.type = "IfExpression" -> generateIfExpression(node, g)
    [] node.type = "BlockExpression" -> generateBlockExpression(node, g)
    [] OTHER -> Raise("Unknown expression type: " \o node.type, g)

WithIndent(g, delta) == [g EXCEPT !.indentLevel = @ + delta]

\* const / let declaration and assignment: one line around the value
generateBinding(prefix, node, valueNode, g) ==
  Try(generateExpression(valueNode, g), LAMBDA value :
    Done(emitLine(value.g, prefix \o node.name \o " = " \o value.text
                             \o ";")))

generateLetDeclaration(node, g) == generateBinding("const ", node, node.init, g)

generateVarDeclaration(node, g) == generateBinding("let ", node, node.init, g)

generateAssignment(node, g) == generateBinding("", node, node.value, g)

\* this.indentLevel--; this.emitLine('}') after a body that returned
Closing(body) ==
  Try(body, LAMBDA done : Done(emitLine(WithIndent(done.g, -1), "}")))

FunctionHeader(node) ==
  "function " \o node.name \o "(" \o Join(node.params, ", ") \o ") {"

generateFunctionDeclaration(node, g) ==
  IF node.isExpression
  THEN Try(generateExpression(node.body, g), LAMBDA body :
         Closing(Done(emitLine(
           WithIndent(emitLine(body.g, FunctionHeader(node)), 1),
           "return " \o body.text \o ";"))))
  ELSE Closing(generateBlockBody(node.body,
                 WithIndent(emitLine(g, FunctionHeader(node)), 1)))

generateWhileStatement(node, g) ==
  Try(generateExpression(node.condition, g), LAMBDA condition :
    Closing(generateStatements(node.body.statements,
      WithIndent(emitLine(condition.g,
                          "while (" \o condition.text \o ") {"), 1))))

generateForStatement(node, g) ==
  Try(generateExpression(node.iterable, g), LAMBDA iterable :
    Closing(generateStatements(node.body.statements,
      WithIndent(emitLine(iterable.g,
                   "for (const " \o node.variable \o " of "
                     \o iterable.text \o ") {"), 1))))

generateReturnStatement(node, g) ==
  IF "value" \in DOMAIN node
  THEN Try(generateExpression(node.value, g), LAMBDA value :
         Done(emitLine(value.g, "return " \o value.text \o ";")))
  ELSE Done(emitLine(g, "return;"))

\* generateNode without the case of the for loop
generateNodeNoFor(node, g) ==
  CASE node.type = "Program" ->
         Raise("Unexpected Program node in generateNode", g)
    [] node.type = "LetDeclaration" -> generateLetDeclaration(node, g)
    [] node.type = "VarDeclaration" -> generateVarDeclaration(node, g)
    [] node.type = "FunctionDeclaration" ->
         generateFunctionDeclaration(node, g)
    [] node.type = "Assignment" -> generateAssignment(node, g)
    [] node.type = "WhileStatement" -> generateWhileStatement(node, g)
    [] node.type = "ReturnStatement" -> generateReturnStatement(node, g)
    [] node.type = "ExpressionStatement" ->
         Try(generateExpression(node.expression, g), LAMBDA expr :
           Done(emitLine(expr.g, expr.text \o ";")))
    [] OTHER -> Raise("Unknown statement type: " \o node.type, g)

generateNode(node, g) ==
  CASE node.type = "Program" ->
         Raise("Unexpected Program node in generateNode", g)
    [] node.type = "LetDeclaration" -> generateLetDeclaration(node, g)
    [] node.type = "VarDeclaration" -> generateVarDeclaration(node, g)
    [] node.type = "FunctionDeclaration" ->
         generateFunctionDeclaration(node, g)
    [] node.type = "Assignment" -> generateAssignment(node, g)
    [] node.type = "WhileStatement" -> generateWhileStatement(node, g)
    [] node.type = "ForStatement" -> generateForStatement(node, g)
    [] node.type = "ReturnStatement" -> generateReturnStatement(node, g)
    [] node.type = "ExpressionStatement" ->
         Try(generateExpression(node.expression, g), LAMBDA expr :
           Done(emitLine(expr.g, expr.text \o ";")))
    [] OTHER -> Raise("Unknown statement type: " \o node.type, g)

generateStatements(statements, g) ==
  IF statements = <<>> THEN Done(g)
  ELSE Try(generateNode(Head(statements), g), LAMBDA first :
         generateStatements(Tail(statements), first.g))

\* every statement of a block emitted as the statement it is
BlockStatementPlain(stmt, isLast, g) == generateNode(stmt, g)

\* the last statement of a block, when an expression, is returned
BlockStatement(stmt, isLast, g) ==
  IF isLast /\ stmt.type = "ExpressionStatement"
  THEN Try(generateExpression(stmt.expression, g), LAMBDA expr :
         Done(emitLine(expr.g, "return " \o expr.text \o ";")))
  ELSE generateNode(stmt, g)

\* the for loop of generateBlockBody from index i (1-based)
BlockBodyLoop(statements, i, g) ==
  IF i > Len(statements) THEN Done(g)
  ELSE Try(BlockStatement(statements[i], i = Len(statements), g),
           LAMBDA step : BlockBodyLoop(statements, i + 1, step.g))

generateBlockBody(node, g) ==
  Try(BlockBodyLoop(node.statements, 1, g), LAMBDA body :
    IF Len(node.statements) = 0
    THEN Done(emitLine(body.g, "return undefined;"))
    ELSE body)

RUNTIME_IMPORT == "import * as __piper from \"./runtime.js\";\n\n"

\* generate(ast) on the generator g: the returned text and the generator
CodeGenerator_generate(program, g) ==
  Try(generateStatements(program.body, emit(g, RUNTIME_IMPORT)), LAMBDA body :
    Text(Join(body.g.output, ""), body.g))


(***************************************************************************)
(* Source texts                                                            *)
(***************************************************************************)
\* let x = 1
S_let ==
  <<"l", "e", "t", " ", "x", " ", "=", " ", "1">>

\* var y = 2
S_var ==
  <<"v", "a", "r", " ", "y", " ", "=", " ", "2">>

\* fn f(x) = x
S_fnExpression ==
  <<"f", "n", " ", "f", "(", "x", ")", " ", "=", " ", "x">>

\* fn g() { 1 }
S_fnBlock ==
  <<"f", "n", " ", "g", "(", ")", " ", "{", " ", "1", " ", "}">>

\* x = 1
S_assignment ==
  <<"x", " ", "=", " ", "1">>

\* return 1
S_returnValue ==
  <<"r", "e", "t", "u", "r", "n", " ", "1">>

\* return
S_return ==
  <<"r", "e", "t", "u", "r", "n">>

\* while x { y }
S_while ==
  <<"w", "h", "i", "l", "e", " ", "x", " ", "{", " ", "y", " ", "}">>

\* for i in x { y }
S_for ==
  <<"f", "o", "r", " ", "i", " ", "i", "n", " ", "x", " ", "{", " ", "y",
    " ", "}">>

\* f(x)
S_expression ==
  <<"f", "(", "x", ")">>

\* x |> 1
P_pipeLiteral ==
  <<"x", " ", "|", ">", " ", "1">>

\* 5 |> double
P_pipeIdentifier ==
  <<"5", " ", "|", ">", " ", "d", "o", "u", "b", "l", "e">>

\* 5 |> add(3)
P_pipeCall ==
  <<"5", " ", "|", ">", " ", "a", "d", "d", "(", "3", ")">>

\* x |> f |> g(a)
P_pipeChain ==
  <<"x", " ", "|", ">", " ", "f", " ", "|", ">", " ", "g", "(", "a", ")">>

\* x |> print
P_pipeBuiltin ==
  <<"x", " ", "|", ">", " ", "p", "r", "i", "n", "t">>

\* x |> f(a)(b)
P_pipeCurried ==
  <<"x", " ", "|", ">", " ", "f", "(", "a", ")", "(", "b", ")">>

\* [1,2,3] |> map(|x| x * 2) |> sum
P_pipeLambda ==
  <<"[", "1", ",", "2", ",", "3", "]", " ", "|", ">", " ", "m", "a", "p",
    "(", "|", "x", "|", " ", "x", " ", "*", " ", "2", ")", " ", "|", ">",
    " ", "s", "u", "m">>

\* range(1, 3) |> filter(f) |> reduce(g, 0) |> len |> show
P_pipeBuiltins ==
  <<"r", "a", "n", "g", "e", "(", "1", ",", " ", "3", ")", " ", "|", ">",
    " ", "f", "i", "l", "t", "e", "r", "(", "f", ")", " ", "|", ">", " ",
    "r", "e", "d", "u", "c", "e", "(", "g", ",", " ", "0", ")", " ", "|",
    ">", " ", "l", "e", "n", " ", "|", ">", " ", "s", "h", "o", "w">>

\* print(42)
P_callBuiltin ==
  <<"p", "r", "i", "n", "t", "(", "4", "2", ")">>

\* foo(1, 2)
P_callUser ==
  <<"f", "o", "o", "(", "1", ",", " ", "2", ")">>

\* print(len(x), sum(y))
P_callNested ==
  <<"p", "r", "i", "n", "t", "(", "l", "e", "n", "(", "x", ")", ",", " ",
    "s", "u", "m", "(", "y", ")", ")">>

\* xs |> map(print)
P_builtinArgument ==
  <<"x", "s", " ", "|", ">", " ", "m", "a", "p", "(", "p", "r", "i", "n",
    "t", ")">>

\* let f = sum
P_builtinValue ==
  <<"l", "e", "t", " ", "f", " ", "=", " ", "s", "u", "m">>

\* 1 + 2 * 3
P_precedence ==
  <<"1", " ", "+", " ", "2", " ", "*", " ", "3">>

\* a - b - c
P_leftAssoc ==
  <<"a", " ", "-", " ", "b", " ", "-", " ", "c">>

\* -a * !b
P_unary ==
  <<"-", "a", " ", "*", " ", "!", "b">>

\* -f(x) + 1
P_unaryCall ==
  <<"-", "f", "(", "x", ")", " ", "+", " ", "1">>

\* (a + b) * c
P_paren ==
  <<"(", "a", " ", "+", " ", "b", ")", " ", "*", " ", "c">>

\* constructor
P_prototypeName ==
  <<"c", "o", "n", "s", "t", "r", "u", "c", "t", "o", "r">>

\* let toString = 1
P_prototypeLet ==
  <<"l", "e", "t", " ", "t", "o", "S", "t", "r", "i", "n", "g", " ", "=",
    " ", "1">>

\* let var fn if then else while for in return true false null
P_keywords ==
  <<"l", "e", "t", " ", "v", "a", "r", " ", "f", "n", " ", "i", "f", " ",
    "t", "h", "e", "n", " ", "e", "l", "s", "e", " ", "w", "h", "i", "l",
    "e", " ", "f", "o", "r", " ", "i", "n", " ", "r", "e", "t", "u", "r",
    "n", " ", "t", "r", "u", "e", " ", "f", "a", "l", "s", "e", " ", "n",
    "u", "l", "l">>

\* lets _x1 In
P_identifiers ==
  <<"l", "e", "t", "s", " ", "_", "x", "1", " ", "I", "n">>

\* let s = "abc
P_unterminated ==
  <<"l", "e", "t", " ", "s", " ", "=", " ", "\"", "a", "b", "c">>

\* x\n  'a\
P_unterminatedLine2 ==
  <<"x", "\n", " ", " ", "'", "a", "\\">>

\* print("a\"b\n", 'c')
P_string ==
  <<"p", "r", "i", "n", "t", "(", "\"", "a", "\\", "\"", "b", "\\", "n",
    "\"", ",", " ", "'", "c", "'", ")">>

\* 42 // c\n3.14
P_commentLine ==
  <<"4", "2", " ", "/", "/", " ", "c", "\n", "3", ".", "1", "4">>

\* x // c
P_commentEnd ==
  <<"x", " ", "/", "/", " ", "c">>

\* if x > 0 then x else -x
P_ifElse ==
  <<"i", "f", " ", "x", " ", ">", " ", "0", " ", "t", "h", "e", "n", " ",
    "x", " ", "e", "l", "s", "e", " ", "-", "x">>

\* if x { 1 } else if y { 2 } else { 3 }
P_ifBlock ==
  <<"i", "f", " ", "x", " ", "{", " ", "1", " ", "}", " ", "e", "l", "s",
    "e", " ", "i", "f", " ", "y", " ", "{", " ", "2", " ", "}", " ", "e",
    "l", "s", "e", " ", "{", " ", "3", " ", "}">>

\* |x| { let y = x * 2; y }
P_lambdaBlock ==
  <<"|", "x", "|", " ", "{", " ", "l", "e", "t", " ", "y", " ", "=", " ",
    "x", " ", "*", " ", "2", ";", " ", "y", " ", "}">>

\* { let x = 5; x * 2 }
P_block ==
  <<"{", " ", "l", "e", "t", " ", "x", " ", "=", " ", "5", ";", " ", "x",
    " ", "*", " ", "2", " ", "}">>

\* fn h(a, b) { if a { return b }; return }
P_fnReturn ==
  <<"f", "n", " ", "h", "(", "a", ",", " ", "b", ")", " ", "{", " ", "i",
    "f", " ", "a", " ", "{", " ", "r", "e", "t", "u", "r", "n", " ", "b",
    " ", "}", ";", " ", "r", "e", "t", "u", "r", "n", " ", "}">>

\* let e = {}
P_emptyBlock ==
  <<"l", "e", "t", " ", "e", " ", "=", " ", "{", "}">>

\* 007 1.50
P_number ==
  <<"0", "0", "7", " ", "1", ".", "5", "0">>

\* [true, false, null]
P_literals ==
  <<"[", "t", "r", "u", "e", ",", " ", "f", "a", "l", "s", "e", ",", " ",
    "n", "u", "l", "l", "]">>

\* )
P_unexpected ==
  <<")">>

\* f(x
P_expectParen ==
  <<"f", "(", "x">>

\* var n = 0 n = n + 1
P_twoStatements ==
  <<"v", "a", "r", " ", "n", " ", "=", " ", "0", " ", "n", " ", "=", " ",
    "n", " ", "+", " ", "1">>


\* a == -b != !c
P_equality ==
  <<"a", " ", "=", "=", " ", "-", "b", " ", "!", "=", " ", "!", "c">>

\* let a = |x| { x }\nwhile a { b }\nc
P_structure ==
  <<"l", "e", "t", " ", "a", " ", "=", " ", "|", "x", "|", " ", "{", " ", "x",
    " ", "}", "\n", "w", "h", "i", "l", "e", " ", "a", " ", "{", " ", "b",
    " ", "}", "\n", "c">>

\* let a = []
P_emptyArray ==
  <<"l", "e", "t", " ", "a", " ", "=", " ", "[", "]">>

\* let x\n= 42
P_lineColumn ==
  <<"l", "e", "t", " ", "x", "\n", "=", " ", "4", "2">>

\* f("a\nb") // c\n\t y
P_multiLine ==
  <<"f", "(", "\"", "a", "\n", "b", "\"", ")", " ", "/", "/", " ", "c", "\n",
    "\t", " ", "y">>

\* a | f
P_barOperator ==
  <<"a", " ", "|", " ", "f">>

\* |x|> f
P_barArrow ==
  <<"|", "x", "|", ">", " ", "f">>

\* f(,a)
P_leadingCall ==
  <<"f", "(", ",", "a", ")">>

\* [,1]
P_leadingArray ==
  <<"[", ",", "1", "]">>

\* fn g(,x) = x
P_leadingFn ==
  <<"f", "n", " ", "g", "(", ",", "x", ")", " ", "=", " ", "x">>

\* |,x| x
P_leadingLambda ==
  <<"|", ",", "x", "|", " ", "x">>

\* f(a,)
P_trailingCall ==
  <<"f", "(", "a", ",", ")">>

\* [1,,2]
P_doubleComma ==
  <<"[", "1", ",", ",", "2", "]">>

\* |x| { if x { 1 } }
P_nestedBodies ==
  <<"|", "x", "|", " ", "{", " ", "i", "f", " ", "x", " ", "{", " ", "1", " ",
    "}", " ", "}">>

\* one statement of every form, each also compiled with a `;` after it
StatementForms ==
  {S_let, S_var, S_fnExpression, S_fnBlock, S_assignment, S_returnValue,
   S_return, S_while, S_for, S_expression}

WithSemicolon(text) == text \o <<";">>

Programs ==
  {P_pipeLiteral, P_pipeIdentifier, P_pipeCall, P_pipeChain, P_pipeBuiltin,
   P_pipeCurried, P_pipeLambda, P_pipeBuiltins, P_callBuiltin, P_callUser,
   P_callNested, P_builtinArgument, P_builtinValue, P_precedence,
   P_leftAssoc, P_unary, P_unaryCall, P_paren, P_prototypeName,
   P_prototypeLet, P_keywords, P_identifiers, P_unterminated,
   P_unterminatedLine2, P_string, P_commentLine, P_commentEnd, P_ifElse,
   P_ifBlock, P_lambdaBlock, P_block, P_fnReturn, P_emptyBlock, P_number,
   P_literals, P_unexpected, P_expectParen, P_twoStatements, P_equality,
   P_structure, P_emptyArray, P_lineColumn, P_multiLine, P_barOperator,
   P_barArrow, P_leadingCall, P_leadingArray, P_leadingFn, P_leadingLambda,
   P_trailingCall, P_doubleComma, P_nestedBodies}

\* lexemes the generated lexer inputs are made of
LexPieces ==
  {<<"a">>, <<"1">>, <<" ">>, <<"\n">>, <<"/", "/">>, <<"\"">>, <<"'">>,
   <<"\\">>, <<NUL>>, <<"@">>}

LexInputs == {Flatten(pieces) : pieces \in SeqsUpTo(LexPieces, MaxPieces)}

\* operand (operator operand)*, the operands named a, b, c, ... by position
BinaryOperatorLexemes ==
  {<<"|", ">">>, <<"|", "|">>, <<"&", "&">>, <<"=", "=">>, <<"!", "=">>,
   <<"<">>, <<"<", "=">>, <<">">>, <<">", "=">>, <<"+">>, <<"-">>, <<"*">>,
   <<"/">>, <<"%">>}

OperandNames == <<"a", "b", "c", "d", "e", "f">>

RECURSIVE OperatorExpression(_, _)
OperatorExpression(ops, i) ==
  IF i > Len(ops) THEN <<>>
  ELSE ops[i] \o <<OperandNames[i + 1]>> \o OperatorExpression(ops, i + 1)

ExprInputs ==
  {<<OperandNames[1]>> \o OperatorExpression(ops, 1) :
     ops \in SeqsUpTo(BinaryOperatorLexemes, MaxOps)}

(* If expressions: `if a`, an optional `then`, a then-branch, an optional   *)
(* `else` with its branch, and an optional rest after the else-branch.     *)
\* if a 
IfHead ==
  <<"i", "f", " ", "a", " ">>

\* then 
ThenKeyword ==
  <<"t", "h", "e", "n", " ">>

\*  else 
ElseKeyword ==
  <<" ", "e", "l", "s", "e", " ">>

\* { 1 }
B_block ==
  <<"{", " ", "1", " ", "}">>

\* b
B_name ==
  <<"b">>

\* if b then 1 else 2
B_if ==
  <<"i", "f", " ", "b", " ", "t", "h", "e", "n", " ", "1", " ", "e", "l", "s",
    "e", " ", "2">>

\* { 2 }
E_block ==
  <<"{", " ", "2", " ", "}">>

\* if c { 3 }
E_ifBlock ==
  <<"i", "f", " ", "c", " ", "{", " ", "3", " ", "}">>

\* if c then 3 else 4
E_ifElse ==
  <<"i", "f", " ", "c", " ", "t", "h", "e", "n", " ", "3", " ", "e", "l", "s",
    "e", " ", "4">>

\* d + e
E_sum ==
  <<"d", " ", "+", " ", "e">>

\*  + d
R_plus ==
  <<" ", "+", " ", "d">>

\* the written forms: `then` is left out only before a block, a then-branch
\* that is an if with an else ends the text, and a rest follows only a block
IfForms ==
  {form \in [keyword : BOOLEAN, thenBranch : {B_block, B_name, B_if},
             elseBranch : {<<>>, E_block, E_ifBlock, E_ifElse, E_sum},
             rest : {<<>>, R_plus}] :
     /\ form.keyword \/ form.thenBranch = B_block
     /\ form.thenBranch = B_if => form.elseBranch = <<>>
     /\ form.rest # <<>> => form.elseBranch = E_block}

IfText(form) ==
  IfHead \o (IF form.keyword THEN ThenKeyword ELSE <<>>) \o form.thenBranch
    \o (IF form.elseBranch = <<>> THEN <<>>
        ELSE ElseKeyword \o form.elseBranch)
    \o form.rest

IfInputs == {IfText(form) : form \in IfForms}

Sources ==
  StatementForms \cup {WithSemicolon(text) : text \in StatementForms}
    \cup Programs \cup LexInputs \cup ExprInputs \cup IfInputs

(***************************************************************************)
(* compile(sourceCode)                                                     *)
(***************************************************************************)
NoNode == [type |-> "undefined"]
NoError == [name |-> "none"]
\* no second call yet; a second call fills in the kind of result it returns
NoCall == [op |-> "none", tokens |-> <<>>, ast |-> NoNode, text |-> ""]
NoCompilation == [pc |-> "none"]
NoDriver == [pc |-> "none"]

Init ==
  /\ source \in Sources
  /\ lexer = NewLexer
  /\ tokens = <<>>
  /\ parser = [tokens |-> <<>>, pos |-> 0]
  /\ ast = NoNode
  /\ codegen = NewCodeGenerator
  /\ jsCode = ""
  /\ error = NoError
  /\ pc = "tokenize"
  /\ second = NoCall
  /\ other = NoCompilation
  /\ driver = NoDriver

\* one step of lexer.tokenize(); the return hands the tokens to compile, a
\* throw leaves compile
TokenizeStep ==
  /\ pc = "tokenize"
  /\ lexer' = LexStep(source, lexer)
  /\ tokens' = IF lexer'.pc = "done" THEN lexer'.tokens ELSE tokens
  /\ error' = IF lexer'.pc = "error"
              THEN [name |-> "Error", message |-> lexer'.error] ELSE error
  /\ pc' = CASE lexer'.pc = "done" -> "parse"
             [] lexer'.pc = "error" -> "threw"
             [] OTHER -> pc
  /\ UNCHANGED <<source, parser, ast, codegen, jsCode, second, other,
                 driver>>

LoopExit == AtLoopExit(source, lexer) /\ TokenizeStep
SkipWhitespace == AtSkipWhitespace(source, lexer) /\ TokenizeStep
SkipComment == AtSkipComment(source, lexer) /\ TokenizeStep
CommentLoop == AtCommentLoop(source, lexer) /\ TokenizeStep
CommentEnd == AtCommentEnd(source, lexer) /\ TokenizeStep
Break == AtBreak(source, lexer) /\ TokenizeStep
Newline == AtNewline(source, lexer) /\ TokenizeStep
ReadNumber == AtNumber(source, lexer) /\ TokenizeStep
ReadString == AtString(source, lexer) /\ TokenizeStep
ReadIdentifier == AtIdentifier(source, lexer) /\ TokenizeStep
TwoCharOperator == AtTwoChar(source, lexer) /\ TokenizeStep
SingleCharToken == AtSingleChar(source, lexer) /\ TokenizeStep
PushEOF == AtEOF(source, lexer) /\ TokenizeStep

\* new Parser(tokens, sourceCode).parse()
Parse ==
  /\ pc = "parse"
  /\ LET created == NewParser(tokens)
         result == Parser_parse(created.tokens, created.pos)
     IN /\ parser' = [created EXCEPT !.pos = result.pos]
        /\ ast' = IF result.ok THEN result.node ELSE ast
        /\ error' = IF result.ok THEN error ELSE result.err
        /\ pc' = IF result.ok THEN "generate" ELSE "threw"
  /\ UNCHANGED <<source, lexer, tokens, codegen, jsCode, second, other,
                 driver>>

\* new CodeGenerator().generate(ast)
Generate ==
  /\ pc = "generate"
  /\ LET result == CodeGenerator_generate(ast, NewCodeGenerator)
     IN /\ codegen' = result.g
        /\ jsCode' = IF result.ok THEN result.text ELSE jsCode
        /\ error' = IF result.ok THEN error
                    ELSE [name |-> "Error", message |-> result.err]
        /\ pc' = IF result.ok THEN "returned" ELSE "threw"
  /\ UNCHANGED <<source, lexer, tokens, parser, ast, second, other,
                 driver>>

\* A caller that kept the instances compile() made calls one of them again
\* with the same input, once compile() has returned.
\* lexer.tokenize() a second time
TokenizeAgain ==
  /\ pc = "returned"
  /\ second = NoCall
  /\ lexer' = Lexer_tokenize(source, lexer)
  /\ second' = [NoCall EXCEPT !.op = "tokenize", !.tokens = lexer'.tokens]
  /\ UNCHANGED <<source, tokens, parser, ast, codegen, jsCode, error, pc,
                 other, driver>>

\* parser.parse() a second time
ParseAgain ==
  /\ pc = "returned"
  /\ second = NoCall
  /\ LET result == Parser_parse(parser.tokens, parser.pos)
     IN /\ parser' = [parser EXCEPT !.pos = result.pos]
        /\ second' = [NoCall EXCEPT !.op = "parse", !.ast = result.node]
  /\ UNCHANGED <<source, lexer, tokens, ast, codegen, jsCode, error, pc,
                 other, driver>>

\* codegen.generate(ast) a second time
GenerateAgain ==
  /\ pc = "returned"
  /\ second = NoCall
  /\ LET result == CodeGenerator_generate(ast, codegen)
     IN /\ codegen' = result.g
        /\ second' = [NoCall EXCEPT !.op = "generate", !.text = result.text]
  /\ UNCHANGED <<source, lexer, tokens, parser, ast, jsCode, error, pc,
                 other, driver>>

Next ==
  \/ LoopExit
  \/ SkipWhitespace
  \/ SkipComment
  \/ CommentLoop
  \/ CommentEnd
  \/ Break
  \/ Newline
  \/ ReadNumber
  \/ ReadString
  \/ ReadIdentifier
  \/ TwoCharOperator
  \/ SingleCharToken
  \/ PushEOF
  \/ Parse
  \/ Generate
  \/ TokenizeAgain
  \/ ParseAgain
  \/ GenerateAgain

Spec == Init /\ [][Next]_vars

\* tokenize() runs its loop to the end: a step of it that can be taken is
\* taken
FairSpec == Spec /\ WF_vars(TokenizeStep)

(***************************************************************************)
(* Two compilations, each with a Lexer, a Parser and a CodeGenerator of    *)
(* its own, their steps taken in any order.  The second compilation is the *)
(* record other, with the fields of compile() above.                       *)
(***************************************************************************)
\* compile(src) before its first step
NewCompilation(src) ==
  [source |-> src, lexer |-> NewLexer, tokens |-> <<>>,
   parser |-> [tokens |-> <<>>, pos |-> 0], ast |-> NoNode,
   codegen |-> NewCodeGenerator, jsCode |-> "", error |-> NoError,
   pc |-> "tokenize"]

\* one generator made when the module is loaded, used by every compile()
CompileGeneratorHoisted(c) == codegen

\* const codegen = new CodeGenerator(): made by the call of compile()
CompileGenerator(c) == NewCodeGenerator

\* the next step of the compilation c: a step of tokenize(), parse() or
\* generate()
CompileStep(c) ==
  CASE c.pc = "tokenize" ->
         Let(LexStep(c.source, c.lexer), LAMBDA lx :
           [c EXCEPT !.lexer = lx,
                     !.tokens = IF lx.pc = "done" THEN lx.tokens ELSE @,
                     !.error = IF lx.pc = "error"
                               THEN [name |-> "Error", message |-> lx.error]
                               ELSE @,
                     !.pc = CASE lx.pc = "done" -> "parse"
                              [] lx.pc = "error" -> "threw"
                              [] OTHER -> @])
    [] c.pc = "parse" ->
         Let(NewParser(c.tokens), LAMBDA created :
         Let(Parser_parse(created.tokens, created.pos), LAMBDA result :
           [c EXCEPT !.parser = [created EXCEPT !.pos = result.pos],
                     !.ast = IF result.ok THEN result.node ELSE @,
                     !.error = IF result.ok THEN @ ELSE result.err,
                     !.pc = IF result.ok THEN "generate" ELSE "threw"]))
    [] c.pc = "generate" ->
         Let(CodeGenerator_generate(c.ast, CompileGenerator(c)), LAMBDA result :
           [c EXCEPT !.codegen = result.g,
                     !.jsCode = IF result.ok THEN result.text ELSE @,
                     !.error = IF result.ok THEN @
                               ELSE [name |-> "Error",
                                     message |-> result.err],
                     !.pc = IF result.ok THEN "returned" ELSE "threw"])

\* the texts the two compilations are given: three that compile, and one
\* that fails in each of tokenize, parse and generate
TwoSources ==
  {S_let, P_pipeBuiltin, P_block, P_unterminated, P_expectParen,
   P_pipeLiteral}

InitTwo ==
  /\ source \in TwoSources
  /\ lexer = NewLexer
  /\ tokens = <<>>
  /\ parser = [tokens |-> <<>>, pos |-> 0]
  /\ ast = NoNode
  /\ codegen = NewCodeGenerator
  /\ jsCode = ""
  /\ error = NoError
  /\ pc = "tokenize"
  /\ second = NoCall
  /\ other \in {NewCompilation(src) : src \in TwoSources}
  /\ driver = NoDriver

\* a step of the second compilation
OtherCompiles ==
  /\ other.pc \in {"tokenize", "parse", "generate"}
  /\ other' = CompileStep(other)
  /\ UNCHANGED <<source, lexer, tokens, parser, ast, codegen, jsCode, error,
                 pc, second, driver>>

NextTwo ==
  \/ TokenizeStep
  \/ Parse
  \/ Generate
  \/ OtherCompiles

SpecTwo == InitTwo /\ [][NextTwo]_vars

(***************************************************************************)
(* The run and build commands of the driver.  driver.output and            *)
(* driver.runtime tell whether the generated file and the copy of          *)
(* runtime.js that the driver wrote are on disk, driver.outputFile is the  *)
(* path the generated code was written to, driver.stderr the lines printed *)
(* with console.error, driver.child the code the child ended with and      *)
(* driver.exit the exit code of the process.                               *)
(***************************************************************************)
\* the code of a child that a signal ended is null
Null == -1

\* no code yet
NoCode == -2

Commands == {"run", "build"}

DotPiper == <<".", "p", "i", "p", "e", "r">>

\* a.piper, a, a.p, .piper, a.piper.js
InputPaths ==
  {<<"a">> \o DotPiper, <<"a">>, <<"a", ".", "p">>, DotPiper,
   <<"a">> \o DotPiper \o <<".", "j", "s">>}

\* path.resolve(inputFile) of a relative path, the process running in /w
path_resolve(inputFile) == <<"/", "w", "/">> \o inputFile

EndsWith(text, suffix) ==
  /\ Len(text) >= Len(suffix)
  /\ SubSeq(text, Len(text) - Len(suffix) + 1, Len(text)) = suffix

\* absolutePath.replace(/\.piper$/, extension)
ReplaceExtension(absolutePath, extension) ==
  IF EndsWith(absolutePath, DotPiper)
  THEN SubSeq(absolutePath, 1, Len(absolutePath) - Len(DotPiper))
         \o extension
  ELSE absolutePath

\* const outputFile of the run command and of the build command
OutputFile(d) ==
  ReplaceExtension(path_resolve(d.inputFile),
                   IF d.command = "run"
                   THEN DotPiper \o <<".", "j", "s">>
                   ELSE <<".", "j", "s">>)

NewDriver(command, inputFile) ==
  [pc |-> "start", command |-> command, inputFile |-> inputFile,
   outputFile |-> <<>>, output |-> FALSE, runtime |-> FALSE,
   exit |-> NoCode, child |-> NoCode, stderr |-> <<>>]

\* process.exit(code)
Exit(d, code) == [d EXCEPT !.pc = "exited", !.exit = code]

\* error.source.split('\n')
RECURSIVE SplitLines(_)
SplitLines(src) ==
  IF \A i \in 1..Len(src) : src[i] # "\n" THEN <<src>>
  ELSE LET k == CHOOSE i \in 1..Len(src) :
                  src[i] = "\n" /\ \A j \in 1..(i - 1) : src[j] # "\n"
       IN <<SubSeq(src, 1, k - 1)>>
            \o SplitLines(SubSeq(src, k + 1, Len(src)))

\* String(n).length
RECURSIVE DecimalLength(_)
DecimalLength(n) == IF n < 10 THEN 1 ELSE 1 + DecimalLength(n \div 10)

\* the lines formatError joins with '\n'; src is error.source
formatError(err, src, filePath) ==
  LET location == IF filePath = "" THEN "<input>" ELSE filePath
      sourceLines == SplitLines(src)
      lineNumStr == ToString(err.line)
      gutter == Repeat(" ", DecimalLength(err.line))
  IN <<"error: " \o err.message, "",
       "  --> " \o location \o ":" \o lineNumStr \o ":"
         \o ToString(err.column)>>
     \o IF err.line - 1 < Len(sourceLines)
        THEN <<gutter \o " |",
               lineNumStr \o " | " \o Str(sourceLines[err.line]),
               gutter \o " | " \o Repeat(" ", err.column - 1) \o "^ "
                 \o err.message>>
        ELSE <<>>

\* an error thrown by fs
FsError == [name |-> "Error", message |-> "EACCES: permission denied"]

\* the catch block of a command: the error is printed, process.exit(1)
CatchBlock(d, err, src) ==
  Exit([d EXCEPT !.stderr =
          IF err.name = "PiperError"
          THEN formatError(err, src, Str(d.inputFile))
          ELSE <<"Error: " \o err.message>>], 1)

InitRun ==
  /\ source \in TwoSources
  /\ lexer = NewLexer
  /\ tokens = <<>>
  /\ parser = [tokens |-> <<>>, pos |-> 0]
  /\ ast = NoNode
  /\ codegen = NewCodeGenerator
  /\ jsCode = ""
  /\ error = NoError
  /\ pc = "none"
  /\ second = NoCall
  /\ other = NoCompilation
  /\ driver \in {NewDriver(command, inputFile) :
                   command \in Commands, inputFile \in InputPaths}

DriverStep ==
  UNCHANGED <<source, lexer, tokens, parser, ast, codegen, jsCode, error, pc,
              second, other>>

\* fs.existsSync(absolutePath), then fs.readFileSync, which may throw, then
\* the call of compile(sourceCode)
ReadSource ==
  /\ driver.pc = "start"
  /\ \E exists \in BOOLEAN, threw \in BOOLEAN :
       /\ driver' =
            IF ~exists
            THEN Exit([driver EXCEPT !.stderr =
                         <<"Error: File not found: "
                             \o Str(driver.inputFile)>>], 1)
            ELSE IF threw THEN CatchBlock(driver, FsError, source)
            ELSE [driver EXCEPT !.pc = "compile"]
       /\ pc' = IF exists /\ ~threw THEN "tokenize" ELSE pc
  /\ UNCHANGED <<source, lexer, tokens, parser, ast, codegen, jsCode, error,
                 second, other>>

\* compile() threw: the catch block
CompileThrew ==
  /\ driver.pc = "compile"
  /\ pc = "threw"
  /\ driver' = CatchBlock(driver, error, source)
  /\ DriverStep

\* fs.writeFileSync(outputFile, jsCode), which may throw
WriteOutput ==
  /\ driver.pc = "compile"
  /\ pc = "returned"
  /\ \E threw \in BOOLEAN :
       driver' = IF threw THEN CatchBlock(driver, FsError, source)
                 ELSE [driver EXCEPT !.output = TRUE,
                                     !.outputFile = OutputFile(driver),
                                     !.pc = "copy"]
  /\ DriverStep

\* runtime.js is copied next to the output when it exists; copyFileSync
\* may throw.  The build command then returns and the process ends.
CopyRuntime ==
  /\ driver.pc = "copy"
  /\ \E exists \in BOOLEAN, threw \in BOOLEAN :
       driver' =
         IF exists /\ threw THEN CatchBlock(driver, FsError, source)
         ELSE LET copied == [driver EXCEPT !.runtime = exists]
              IN IF driver.command = "run"
                 THEN [copied EXCEPT !.pc = "spawn"]
                 ELSE Exit(copied, 0)
  /\ DriverStep

\* spawn('node', [outputFile]) and the registration of the exit handler
Spawn ==
  /\ driver.pc = "spawn"
  /\ driver' = [driver EXCEPT !.pc = "child"]
  /\ DriverStep

\* the exit handler: both files are unlinked, process.exit(code || 0)
ChildExit ==
  /\ driver.pc = "child"
  /\ \E code \in {Null, 0, 1} :
       driver' = Exit([driver EXCEPT !.output = FALSE, !.runtime = FALSE,
                                     !.child = code],
                      IF code = Null THEN 0 ELSE code)
  /\ DriverStep

NextRun ==
  \/ ReadSource
  \/ TokenizeStep
  \/ Parse
  \/ Generate
  \/ CompileThrew
  \/ WriteOutput
  \/ CopyRuntime
  \/ Spawn
  \/ ChildExit

RunSpec == InitRun /\ [][NextRun]_vars

(***************************************************************************)
(* Properties of compile(): helpers over the tree and the text             *)
(***************************************************************************)
\* the child nodes of a node, as the node types of the AST list them
Children(node) ==
  CASE node.type = "Program" -> node.body
    [] node.type \in {"LetDeclaration", "VarDeclaration"} -> <<node.init>>
    [] node.type = "FunctionDeclaration" -> <<node.body>>
    [] node.type = "Assignment" -> <<node.value>>
    [] node.type = "WhileStatement" -> <<node.condition, node.body>>
    [] node.type = "ForStatement" -> <<node.iterable, node.body>>
    [] node.type = "ReturnStatement" ->
         IF "value" \in DOMAIN node THEN <<node.value>> ELSE <<>>
    [] node.type = "ExpressionStatement" -> <<node.expression>>
    [] node.type = "BinaryExpression" -> <<node.left, node.right>>
    [] node.type = "UnaryExpression" -> <<node.operand>>
    [] node.type = "PipeExpression" -> <<node.left, node.right>>
    [] node.type = "CallExpression" -> <<node.callee>> \o node.args
    [] node.type = "Lambda" -> <<node.body>>
    [] node.type = "ArrayLiteral" -> node.elements
    [] node.type = "IfExpression" ->
         <<node.condition, node.thenBranch>>
           \o (IF "elseBranch" \in DOMAIN node THEN <<node.elseBranch>>
               ELSE <<>>)
    [] node.type = "BlockExpression" -> node.statements
    [] OTHER -> <<>>

\* a node and every node below it
RECURSIVE NodeList(_), NodeLists(_)
NodeList(node) == <<node>> \o NodeLists(Children(node))

NodeLists(nodes) ==
  IF Len(nodes) = 0 THEN <<>>
  ELSE NodeList(Head(nodes)) \o NodeLists(Tail(nodes))

\* the nodes generateExpression is called on for their value: a callee or a
\* pipe target that is an Identifier is named by its caller, never generated
ValueChildren(node) ==
  CASE node.type = "CallExpression" /\ node.callee.type = "Identifier" ->
         node.args
    [] node.type = "PipeExpression" /\ node.right.type = "Identifier" ->
         <<node.left>>
    [] /\ node.type = "PipeExpression"
       /\ node.right.type = "CallExpression" ->
         <<node.left>> \o node.right.args
           \o (IF node.right.callee.type = "Identifier" THEN <<>>
               ELSE <<node.right.callee>>)
    [] OTHER -> Children(node)

RECURSIVE ValueList(_), ValueLists(_)
ValueList(node) == <<node>> \o ValueLists(ValueChildren(node))

ValueLists(nodes) ==
  IF Len(nodes) = 0 THEN <<>>
  ELSE ValueList(Head(nodes)) \o ValueLists(Tail(nodes))

\* parse() has returned the tree in ast
Parsed == pc \in {"generate", "returned", "threw"} /\ ast.type = "Program"

\* the text generateExpression returns for a node
TextOf(node) == generateExpression(node, NewCodeGenerator).text

TextsOf(nodes) == [i \in 1..Len(nodes) |-> TextOf(nodes[i])]

IsPipe(node) == node.type = "PipeExpression"

\* the callee f and the written arguments a1..an of a pipe target
TargetCallee(target) ==
  IF target.type = "CallExpression" THEN target.callee ELSE target

TargetArguments(target) ==
  IF target.type = "CallExpression" THEN target.args ELSE <<>>

\* the text a callee is called by
CalleeText(callee) ==
  IF callee.type = "Identifier" THEN CalleeName(callee.name)
  ELSE TextOf(callee)

\* C1: in every tree parse returns, the right operand of every
\* PipeExpression is an Identifier or a CallExpression.
C1_PipeRightIsTarget ==
  Parsed =>
    \A i \in 1..Len(NodeList(ast)) :
      IsPipe(NodeList(ast)[i]) =>
        NodeList(ast)[i].right.type \in {"Identifier", "CallExpression"}

\* C2: tokenize terminates on every source text: it raises a lexical error
\* or returns tokens that end in the one EOF token at the final cursor
\* position.
C2_TokenizeTerminates ==
  <>(\/ lexer.pc = "error"
     \/ /\ lexer.pc = "done"
        /\ lexer.tokens # <<>>
        /\ lexer.tokens[Len(lexer.tokens)] = Token("EOF", <<>>, Loc(lexer)))

\* C3: a pipe generates f(L) for the target f and f(L, a1, ..., an) for the
\* target f(a1..an), L the text of the left operand: the piped value comes
\* first, the written arguments follow in order; x |> f |> g(a) generates
\* g(f(x), a).
C3_PipeDesugaring ==
  pc = "returned" =>
    /\ \A i \in 1..Len(NodeList(ast)) :
         LET node == NodeList(ast)[i]
         IN IsPipe(node) =>
              TextOf(node) =
                CalleeText(TargetCallee(node.right)) \o "("
                  \o Join(<<TextOf(node.left)>>
                            \o TextsOf(TargetArguments(node.right)), ", ")
                  \o ")"
    /\ source = P_pipeIdentifier => jsCode = RUNTIME_IMPORT \o "double(5);\n"
    /\ source = P_pipeCall => jsCode = RUNTIME_IMPORT \o "add(5, 3);\n"
    /\ source = P_pipeChain => jsCode = RUNTIME_IMPORT \o "g(f(x), a);\n"

\* a chain whose last target has written arguments has been generated
C3_Witness ==
  /\ pc = "returned"
  /\ \E i \in 1..Len(NodeList(ast)) :
       LET node == NodeList(ast)[i]
       IN /\ IsPipe(node)
          /\ IsPipe(node.left)
          /\ node.right.type = "CallExpression"
          /\ Len(node.right.args) > 0

\* the callee text the qualification rule gives a name
RuntimeName(name) ==
  IF name \in {"print", "len", "map", "filter", "reduce", "range", "sum"}
  THEN "__piper." \o name ELSE name

\* the plain call f(L, a1, ..., an) a pipe into f or f(a1..an) stands for
PlainCall(pipe) ==
  [type |-> "CallExpression", callee |-> TargetCallee(pipe.right),
   args |-> <<pipe.left>> \o TargetArguments(pipe.right),
   loc |-> pipe.loc]

IsNamedCall(node) ==
  node.type = "CallExpression" /\ node.callee.type = "Identifier"

IsNamedPipe(node) ==
  /\ IsPipe(node)
  /\ node.right.type \in {"Identifier", "CallExpression"}
  /\ TargetCallee(node.right).type = "Identifier"

\* C4: a callee that is an Identifier is emitted as __piper.<name> when the
\* name is one of print, len, map, filter, reduce, range, sum and bare
\* otherwise, in a plain call and in a pipe target alike; a pipe gets the
\* callee text of the plain call it stands for.
C4_BuiltinCallees ==
  pc = "returned" =>
    \A i \in 1..Len(NodeList(ast)) :
      LET node == NodeList(ast)[i]
      IN /\ IsNamedCall(node) =>
              TextOf(node) =
                RuntimeName(node.callee.name) \o "("
                  \o Join(TextsOf(node.args), ", ") \o ")"
         /\ IsNamedPipe(node) =>
              /\ TextOf(node) =
                   RuntimeName(TargetCallee(node.right).name) \o "("
                     \o Join(<<TextOf(node.left)>>
                               \o TextsOf(TargetArguments(node.right)), ", ")
                     \o ")"
              /\ TextOf(node) = TextOf(PlainCall(node))

\* one program with a built-in called plainly, a built-in piped into and a
\* user function called
C4_Witness ==
  /\ pc = "returned"
  /\ \E i, j \in 1..Len(NodeList(ast)) :
       /\ IsNamedCall(NodeList(ast)[i])
       /\ NodeList(ast)[i].callee.name \in BUILTINS
       /\ IsNamedPipe(NodeList(ast)[j])
       /\ TargetCallee(NodeList(ast)[j].right).name \in BUILTINS
  /\ \E i \in 1..Len(NodeList(ast)) :
       /\ IsNamedPipe(NodeList(ast)[i])
       /\ TargetCallee(NodeList(ast)[i].right).name \notin BUILTINS

\* C5: a built-in name used as a value (an argument, an initializer) is
\* generated as a reference to the runtime namespace, as a built-in callee
\* is.
C5_BuiltinValuesQualified ==
  pc = "returned" =>
    \A i \in 1..Len(ValueList(ast)) :
      LET node == ValueList(ast)[i]
      IN (node.type = "Identifier" /\ node.name \in BUILTINS) =>
           TextOf(node) = "__piper." \o node.name

\* operator tokens by tier, loosest first
TierOf(type) ==
  CASE type = "PIPE" -> 0
    [] type = "OR" -> 1
    [] type = "AND" -> 2
    [] type \in {"EQEQ", "NEQ"} -> 3
    [] type \in {"LT", "LTE", "GT", "GTE"} -> 4
    [] type \in {"PLUS", "MINUS"} -> 5
    [] type \in {"STAR", "SLASH", "PERCENT"} -> 6
    [] OTHER -> 7

\* operand (operator operand)* EOF
IsOperatorChain(toks) ==
  /\ Len(toks) >= 2
  /\ Len(toks) % 2 = 0
  /\ toks[Len(toks)].type = "EOF"
  /\ \A i \in 1..(Len(toks) - 1) :
       IF i % 2 = 1 THEN toks[i].type \in {"IDENTIFIER", "NUMBER"}
       ELSE TierOf(toks[i].type) < 7

\* the operator toks[lo..hi] splits at: the last one of the loosest tier
SplitAt(toks, lo, hi) ==
  CHOOSE k \in lo..hi :
    /\ k % 2 = 0
    /\ \A j \in lo..hi :
         j % 2 = 0 =>
           \/ TierOf(toks[j].type) > TierOf(toks[k].type)
           \/ TierOf(toks[j].type) = TierOf(toks[k].type) /\ j <= k

Operand(token) ==
  IF token.type = "NUMBER" THEN LiteralOf(token)
  ELSE [type |-> "Identifier", name |-> Str(token.value), loc |-> token.loc]

\* the tree of toks[lo..hi] by tiers, each tier grouping to the left
RECURSIVE TierTree(_, _, _)
TierTree(toks, lo, hi) ==
  IF lo = hi THEN Operand(toks[lo])
  ELSE LET k == SplitAt(toks, lo, hi)
           left == TierTree(toks, lo, k - 1)
           right == TierTree(toks, k + 1, hi)
       IN IF toks[k].type = "PIPE"
          THEN [type |-> "PipeExpression", left |-> left, right |-> right,
                loc |-> toks[k].loc]
          ELSE [type |-> "BinaryExpression",
                operator |-> Str(toks[k].value), left |-> left,
                right |-> right, loc |-> left.loc]

\* C6: parse groups binary operators by the tiers
\* pipe < || < && < (== !=) < (< <= > >=) < (+ -) < (* / %) < unary < call,
\* one tier to the left; 1 + 2 * 3 is a + node over 1 and the * node.
C6_PrecedenceTiers ==
  /\ (pc \in {"generate", "returned", "threw"}
        /\ IsOperatorChain(parser.tokens)) =>
       /\ ast.type = "Program"
       /\ Len(ast.body) = 1
       /\ ast.body[1].type = "ExpressionStatement"
       /\ ast.body[1].expression =
            TierTree(parser.tokens, 1, Len(parser.tokens) - 1)
  /\ (pc = "returned" /\ source = P_unary) =>
       LET expr == ast.body[1].expression
       IN /\ expr.type = "BinaryExpression" /\ expr.operator = "*"
          /\ expr.left.type = "UnaryExpression"
          /\ expr.left.operand.type = "Identifier"
          /\ expr.right.type = "UnaryExpression"
  /\ (pc = "returned" /\ source = P_unaryCall) =>
       LET expr == ast.body[1].expression
       IN /\ expr.type = "BinaryExpression" /\ expr.operator = "+"
          /\ expr.left.type = "UnaryExpression"
          /\ expr.left.operand.type = "CallExpression"

\* 1 + 2 * 3 has been parsed
C6_Witness ==
  /\ Parsed
  /\ source = P_precedence
  /\ ast.body[1].expression.operator = "+"
  /\ ast.body[1].expression.right.operator = "*"

\* the tree parse returns for a text, and whether it returns one
ParseOf(text) ==
  Parser_parse(NewParser(Lexer_tokenize(text, NewLexer).tokens).tokens, 0)

\* C7: a statement of any form followed by one ';' parses, to the tree of
\* the statement without the ';'.
C7_SemicolonOptional ==
  \A text \in StatementForms :
    (source = WithSemicolon(text) /\ pc \in {"generate", "returned", "threw"})
      => /\ ParseOf(text).ok
         /\ ast = ParseOf(text).node

IsWord(token) ==
  /\ token.type # "STRING"
  /\ token.value # <<>>
  /\ token.value[1] \in IdentStart

\* C8: a word gets its keyword kind when it is one of the 13 table entries
\* and IDENTIFIER otherwise; every token kind is a member of TokenType.
C8_KeywordClassification ==
  \A i \in 1..Len(lexer.tokens) :
    LET token == lexer.tokens[i]
    IN /\ token.type \in TokenType
       /\ IsWord(token) =>
            token.type = IF Str(token.value) \in DOMAIN KEYWORDS
                         THEN KEYWORDS[Str(token.value)]
                         ELSE "IDENTIFIER"

\* line and column of the character at offset pos of a text
LineOf(src, pos) == 1 + Cardinality({i \in 1..pos : src[i] = "\n"})

ColumnOf(src, pos) ==
  pos + 1 - (CHOOSE k \in 0..pos :
               /\ k = 0 \/ src[k] = "\n"
               /\ \A j \in (k + 1)..pos : src[j] # "\n")

\* the string opened before index i (1-based) is closed by its quote before
\* the text ends, a backslash taking the character after it
RECURSIVE Closed(_, _, _)
Closed(src, i, quote) ==
  IF i > Len(src) THEN FALSE
  ELSE IF src[i] = "\\" THEN Closed(src, i + 2, quote)
  ELSE IF src[i] = quote THEN TRUE
  ELSE Closed(src, i + 1, quote)

\* the scan stands at the opening quote of a string the text never closes
AtUnterminatedString ==
  /\ pc = "tokenize"
  /\ AtString(source, lexer)
  /\ ~Closed(source, lexer.pos + 2, source[lexer.pos + 1])

UnterminatedMessage(src, pos) ==
  "Unterminated string at line " \o ToString(LineOf(src, pos))
    \o ", column " \o ToString(ColumnOf(src, pos))

\* C9: a string the input ends in, also right after a backslash, makes
\* tokenize raise an error that names the line and column of the opening
\* quote, and no tokens are returned.
C9_UnterminatedString ==
  [][AtUnterminatedString =>
       /\ lexer'.pc = "error"
       /\ lexer'.error = UnterminatedMessage(source, lexer.pos)
       /\ pc' = "threw"
       /\ error' = [name |-> "Error",
                    message |-> UnterminatedMessage(source, lexer.pos)]
       /\ tokens' = <<>>]_vars

\* the input ended right after a backslash inside an unclosed string whose
\* scan had crossed a newline; the error names the opening quote
C9_Witness ==
  /\ pc = "threw"
  /\ lexer.pc = "error"
  /\ source # <<>>
  /\ source[Len(source)] = "\\"
  /\ lexer.pos = Len(source) + 1
  /\ lexer.line > 1
  /\ \E pos \in 0..(Len(source) - 1) :
       /\ source[pos + 1] \in {"\"", "'"}
       /\ lexer.error = UnterminatedMessage(source, pos)

\* C10: tokenize never drops input: when it returns, the cursor has passed
\* every character of the text, a NUL character included (which is no
\* token and so has to raise "Unexpected character").
C10_NeverDropsInput ==
  lexer.pc = "done" => lexer.pos = Len(source)

\* parse() threw: tokenize returned and compile ended without a tree
ParseFailed == pc = "threw" /\ lexer.pc = "done" /\ ast = NoNode

\* the token under the parser's cursor when parse() ended
Offending == Parser_current(parser.tokens, parser.pos)

\* the display form of a token kind, read off the table
DisplayForm(type) ==
  IF type \in TokenType THEN TOKEN_DISPLAY_NAMES[type] ELSE type

Generated == pc = "returned"

\* the operator the output has for an operator of the tree
EmittedOperator(operator) ==
  CASE operator = "==" -> "==="
    [] operator = "!=" -> "!=="
    [] operator \in {"+", "-", "*", "/", "%", "<", "<=", ">", ">=", "&&",
                     "||"} -> operator

\* C12: in every generated program each BinaryExpression is emitted as
\* `(L op R)` and each UnaryExpression as `(opX)`, L, R and X being the
\* texts of its operands, in parentheses of its own, the operator unchanged
\* except `==`, emitted as `===`, and `!=`, emitted as `!==`.
C12_OperatorEmission ==
  Generated =>
    \A i \in 1..Len(NodeList(ast)) :
      LET node == NodeList(ast)[i]
      IN /\ node.type = "BinaryExpression" =>
              TextOf(node) =
                "(" \o TextOf(node.left) \o " "
                  \o EmittedOperator(node.operator) \o " "
                  \o TextOf(node.right) \o ")"
         /\ node.type = "UnaryExpression" =>
              /\ node.operator \in {"-", "!"}
              /\ TextOf(node) =
                   "(" \o node.operator \o TextOf(node.operand) \o ")"

\* `a == -b != !c` is emitted as `((a === (-b)) !== (!c));`
C12_Witness ==
  /\ Generated
  /\ source = P_equality
  /\ jsCode = RUNTIME_IMPORT \o "((a === (-b)) !== (!c));\n"

\* a generator at indentation level n with nothing emitted yet
GeneratorAt(n) == [indentLevel |-> n, output |-> <<>>]

IndentLevels == 0..2

\* what a statement emits as an ordinary statement at level n
StatementText(stmt, n) == Join(generateNode(stmt, GeneratorAt(n)).g.output, "")

\* the text of an expression generated at level n
ExpressionText(expr, n) == generateExpression(expr, GeneratorAt(n)).text

\* the body of the closure of a block, statement by statement
ClosureBody(statements, n) ==
  IF Len(statements) = 0 THEN Repeat("  ", n) \o "return undefined;\n"
  ELSE Join([i \in 1..Len(statements) |->
               IF /\ i = Len(statements)
                  /\ statements[i].type = "ExpressionStatement"
               THEN Repeat("  ", n) \o "return "
                      \o ExpressionText(statements[i].expression, n)
                      \o ";\n"
               ELSE StatementText(statements[i], n)], "")

\* C13: a BlockExpression generated for its value is an immediately invoked
\* closure whose body has, one level deeper, every statement as the
\* ordinary statement it is, except a last statement that is an expression
\* statement, which is `return <expr>;`; a block without statements has
\* `return undefined;`.
C13_BlockAsExpression ==
  Generated =>
    \A i \in 1..Len(NodeList(ast)) : \A n \in IndentLevels :
      LET node == NodeList(ast)[i]
      IN node.type = "BlockExpression" =>
           ExpressionText(node, n) =
             "(() => {\n" \o ClosureBody(node.statements, n + 1)
               \o Repeat("  ", n) \o "})()"

\* `{ let x = 5; x * 2 }` as a statement: the declaration as it is, the
\* product returned
C13_Witness ==
  /\ Generated
  /\ source = P_block
  /\ jsCode = RUNTIME_IMPORT
                \o "(() => {\n  const x = 5;\n  return (x * 2);\n})();\n"

\* the fragment of a top-level statement: a statement that is one line is
\* that line around the text of its expression, a function declaration or
\* a loop is the lines it emits
Fragment(stmt) ==
  CASE stmt.type = "LetDeclaration" ->
         "const " \o stmt.name \o " = " \o ExpressionText(stmt.init, 0)
           \o ";\n"
    [] stmt.type = "VarDeclaration" ->
         "let " \o stmt.name \o " = " \o ExpressionText(stmt.init, 0)
           \o ";\n"
    [] stmt.type = "Assignment" ->
         stmt.name \o " = " \o ExpressionText(stmt.value, 0) \o ";\n"
    [] stmt.type = "ExpressionStatement" ->
         ExpressionText(stmt.expression, 0) \o ";\n"
    [] stmt.type = "ReturnStatement" /\ "value" \in DOMAIN stmt ->
         "return " \o ExpressionText(stmt.value, 0) \o ";\n"
    [] stmt.type = "ReturnStatement" /\ "value" \notin DOMAIN stmt ->
         "return;\n"
    [] OTHER -> StatementText(stmt, 0)

\* C14: the text generate returns on a fresh generator is the runtime import
\* line followed by the fragments of the statements of Program.body, one
\* per statement in the order of the body and nothing else: what a nested
\* block or lambda body emits is inside the fragment of its statement.
C14_OutputStructure ==
  Generated =>
    jsCode = RUNTIME_IMPORT
               \o Join([i \in 1..Len(ast.body) |-> Fragment(ast.body[i])],
                       "")

\* three statements, the first with a lambda body, the second with a block
C14_Witness ==
  /\ Generated
  /\ source = P_structure
  /\ Len(ast.body) = 3
  /\ jsCode = RUNTIME_IMPORT
                \o "const a = ((x) => {\n  return x;\n});\n"
                \o "while (a) {\n  b;\n}\n"
                \o "c;\n"

\* C15: a second call of tokenize, parse or generate on the same instance
\* with the same input returns a result equal to that of the first call.
C15_SecondCallEqual ==
  /\ second.op = "tokenize" => second.tokens = tokens
  /\ second.op = "parse" => second.ast = ast
  /\ second.op = "generate" => second.text = jsCode

\* a node without child nodes
IsLeaf(node) == Children(node) = <<>>

\* C16 as stated: in every tree tokenize and parse return, every leaf is an
\* Identifier or a Literal.
C16_LeavesAreNames ==
  Parsed =>
    \A i \in 1..Len(NodeList(ast)) :
      IsLeaf(NodeList(ast)[i]) =>
        NodeList(ast)[i].type \in {"Identifier", "Literal"}

\* C16 amended: the tree tokenize and parse return is finite, with at most
\* two nodes for every token, and every leaf is an Identifier, a Literal, a
\* ReturnStatement (without value), a BlockExpression (without statements),
\* an ArrayLiteral (without elements) or the Program of an empty text.
C16_LeafKinds ==
  Parsed =>
    /\ Len(NodeList(ast)) <= 2 * Len(parser.tokens)
    /\ \A i \in 1..Len(NodeList(ast)) :
         LET node == NodeList(ast)[i]
         IN IsLeaf(node) =>
              \/ node.type \in {"Identifier", "Literal"}
              \/ node.type = "ReturnStatement" /\ "value" \notin DOMAIN node
              \/ node.type = "BlockExpression" /\ node.statements = <<>>
              \/ node.type = "ArrayLiteral" /\ node.elements = <<>>
              \/ node.type = "Program" /\ node.body = <<>> /\ i = 1

\* `fn h(a, b) { if a { return b }; return }` has an Identifier leaf and a
\* ReturnStatement leaf
C16_Witness ==
  /\ Parsed
  /\ source = P_fnReturn
  /\ \E i, j \in 1..Len(NodeList(ast)) :
       /\ IsLeaf(NodeList(ast)[i]) /\ NodeList(ast)[i].type = "Identifier"
       /\ IsLeaf(NodeList(ast)[j])
       /\ NodeList(ast)[j].type = "ReturnStatement"

\* a step of tokenize() has pushed a token
TokenPushed ==
  pc = "tokenize" /\ Len(lexer'.tokens) = Len(lexer.tokens) + 1

\* C17: every token tokenize pushes, NEWLINE and EOF included, carries the
\* 1-based line and column, counted in the text itself, of the character
\* the scan stood at when the token began, which is the token's first
\* character and no skipped whitespace; EOF carries those of the place the
\* scan ended at.
C17_TokenPositions ==
  [][TokenPushed =>
       LET token == lexer'.tokens[Len(lexer'.tokens)]
       IN /\ token.loc = [line |-> LineOf(source, lexer.pos),
                          column |-> ColumnOf(source, lexer.pos)]
          /\ token.type # "EOF" =>
               /\ lexer.pos < Len(source)
               /\ source[lexer.pos + 1] \notin {" ", "\t", "\r"}
               /\ token.type \notin {"STRING", "NEWLINE"} =>
                    token.value[1] = source[lexer.pos + 1]]_vars

\* in `let x\n= 42` the `=` is at line 2, column 1 and the number at
\* line 2, column 3
C17_Witness ==
  /\ lexer.pc = "done"
  /\ source = P_lineColumn
  /\ \E i \in 1..(Len(tokens) - 1) :
       /\ tokens[i] = Token("EQ", <<"=">>, [line |-> 2, column |-> 1])
       /\ tokens[i + 1] =
            Token("NUMBER", <<"4", "2">>, [line |-> 2, column |-> 3])

\* the tags generateNode and generateExpression have a case for
StatementTags ==
  {"LetDeclaration", "VarDeclaration", "FunctionDeclaration", "Assignment",
   "WhileStatement", "ForStatement", "ReturnStatement",
   "ExpressionStatement"}

ExpressionTags ==
  {"BinaryExpression", "UnaryExpression", "PipeExpression",
   "CallExpression", "Lambda", "Identifier", "Literal", "ArrayLiteral",
   "IfExpression", "BlockExpression"}

\* the children of a node the generator takes as statements
HasStatements(node) == node.type \in {"Program", "BlockExpression"}

\* the bodies the generator takes as a block without looking at the tag
IsBlockBody(parent, child) ==
  \/ /\ parent.type \in {"WhileStatement", "ForStatement"}
     /\ child = parent.body
  \/ /\ parent.type = "FunctionDeclaration"
     /\ ~parent.isExpression
     /\ child = parent.body

\* generate() threw
GenerateFailed == pc = "threw" /\ ast.type = "Program"

\* C18: in every Program parse returns, every node in statement position
\* has a tag generateNode handles, every node in expression position a tag
\* generateExpression handles, and the body of a loop or of a block-style
\* function is a BlockExpression; when generate fails the error is neither
\* 'Unknown statement type' nor 'Unknown expression type'.
C18_TagsHandled ==
  Parsed =>
    \A i \in 1..Len(NodeList(ast)) :
      LET node == NodeList(ast)[i]
      IN /\ \A k \in 1..Len(Children(node)) :
              LET child == Children(node)[k]
              IN /\ HasStatements(node) => child.type \in StatementTags
                 /\ ~HasStatements(node) => child.type \in ExpressionTags
                 /\ IsBlockBody(node, child) =>
                      child.type = "BlockExpression"
         /\ GenerateFailed =>
              error.message \notin
                {"Unknown statement type: " \o node.type,
                 "Unknown expression type: " \o node.type}

\* a generated program with statements and expressions of many kinds
C18_Witness ==
  /\ Generated
  /\ source = P_fnReturn
  /\ {"FunctionDeclaration", "BlockExpression", "ExpressionStatement",
      "IfExpression", "ReturnStatement", "Identifier"}
       \subseteq {NodeList(ast)[i].type : i \in 1..Len(NodeList(ast))}

\* what compile(src) gives when nothing else runs: how it ended, the text it
\* returned and the error it threw
CompileAlone(src) ==
  LET lx == Lexer_tokenize(src, NewLexer)
      parsed == Parser_parse(NewParser(lx.tokens).tokens, 0)
      generated == CodeGenerator_generate(parsed.node, NewCodeGenerator)
  IN IF lx.pc = "error"
     THEN [pc |-> "threw", jsCode |-> "",
           error |-> [name |-> "Error", message |-> lx.error]]
     ELSE IF ~parsed.ok
     THEN [pc |-> "threw", jsCode |-> "", error |-> parsed.err]
     ELSE IF ~generated.ok
     THEN [pc |-> "threw", jsCode |-> "",
           error |-> [name |-> "Error", message |-> generated.err]]
     ELSE [pc |-> "returned", jsCode |-> generated.text, error |-> NoError]

Ended(state) == state \in {"returned", "threw"}

\* C19: however the steps of two compilations with instances of their own
\* are interleaved, each ends the way it ends alone, with the same text or
\* the same error.
C19_NoInterference ==
  /\ Ended(pc) =>
       [pc |-> pc, jsCode |-> jsCode, error |-> error] = CompileAlone(source)
  /\ Ended(other.pc) =>
       [pc |-> other.pc, jsCode |-> other.jsCode, error |-> other.error]
         = CompileAlone(other.source)

\* the first compilation has returned its text while the second, of another
\* text, has tokenized and parsed and has yet to generate
C19_Witness ==
  /\ pc = "returned"
  /\ source = P_block
  /\ jsCode = CompileAlone(P_block).jsCode
  /\ other.pc = "generate"
  /\ other.source = P_pipeBuiltin

\* C20: when the driver process of the run command has exited, no file it
\* wrote is left: neither the generated .piper.js file nor the copy of
\* runtime.js, whether the child succeeded, the child failed, or an error
\* was raised after the generated file was written.
C20_DriverCleanup ==
  driver.command = "run" /\ driver.pc = "exited"
    => ~driver.output /\ ~driver.runtime

\* C21: when the child of the run command has ended, the driver exits with
\* the child's exit code, and with status 0 only if the child exited with
\* code 0: a child that a signal ended is not reported as a success.
C21_ExitStatus ==
  driver.pc = "exited" /\ driver.child # NoCode
    => /\ driver.child # Null => driver.exit = driver.child
       /\ driver.exit = 0 => driver.child = 0

\* a rendered diagnostic: the message, the pointer line with the location,
\* the offending source line and the caret line with column - 1 spaces
\* before the caret
Diagnostic(message, line, column) ==
  <<"error: " \o message, "",
    "  --> " \o Str(driver.inputFile) \o ":" \o ToString(line) \o ":"
      \o ToString(column),
    Repeat(" ", DecimalLength(line)) \o " |",
    ToString(line) \o " | " \o Str(SplitLines(source)[line]),
    Repeat(" ", DecimalLength(line)) \o " | " \o Repeat(" ", column - 1)
      \o "^ " \o message>>

\* C22: every failure of compile that reaches the driver, lexical as well
\* as syntactic, is printed as a rendered diagnostic for some place of the
\* source before the driver exits with a non-zero status.
C22_DiagnosticRendered ==
  driver.pc = "exited" /\ pc = "threw"
    => /\ driver.exit # 0
       /\ \E message \in {error.message, "Unterminated string"},
             line \in 1..Len(SplitLines(source)),
             column \in 1..(Len(source) + 1) :
            driver.stderr = Diagnostic(message, line, column)

\* a syntax error reached the driver and was rendered
C22_SyntaxRendered ==
  driver.pc = "exited" /\ pc = "threw" /\ error.name = "PiperError"
    => /\ driver.exit # 0
       /\ driver.stderr = Diagnostic(error.message, error.line, error.column)

\* C27: the driver never writes over or deletes its input file: the path
\* the generated code is written to, which the run command unlinks when the
\* child ends, differs from the path of the input, whatever the input path
\* ends in.
C27_InputPreserved ==
  driver.output \/ driver.child # NoCode
    => driver.outputFile # path_resolve(driver.inputFile)

\* what a node says besides its type and its children
Label(node) ==
  CASE node.type = "Identifier" -> node.name
    [] node.type = "Literal" -> node.raw
    [] node.type \in {"BinaryExpression", "UnaryExpression"} -> node.operator
    [] node.type \in {"LetDeclaration", "VarDeclaration", "Assignment"} ->
         node.name
    [] node.type = "ForStatement" -> node.variable
    [] node.type = "Lambda" -> Join(node.params, ",")
    [] node.type = "FunctionDeclaration" ->
         node.name \o "(" \o Join(node.params, ",") \o ")"
           \o (IF node.isExpression THEN "=" ELSE "")
    [] OTHER -> ""

\* a tree without the locations of its nodes
RECURSIVE Shape(_)
Shape(node) ==
  [type |-> node.type, label |-> Label(node),
   children |-> [i \in 1..Len(Children(node)) |-> Shape(Children(node)[i])]]

\* the tree of a text that is one expression
ExpressionOf(text) == ParseOf(text).node.body[1].expression

\* the tree the text of a form stands for: the branches as they parse alone,
\* a rest applying to the whole if expression
IfShape(form) ==
  LET branches == <<ExpressionOf(<<"a">>), ExpressionOf(form.thenBranch)>>
                    \o (IF form.elseBranch = <<>> THEN <<>>
                        ELSE <<ExpressionOf(form.elseBranch)>>)
      whole == [type |-> "IfExpression", label |-> "",
                children |-> [i \in 1..Len(branches) |-> Shape(branches[i])]]
  IN IF form.rest = <<>> THEN whole
     ELSE [type |-> "BinaryExpression", label |-> "+",
           children |-> <<whole, Shape(ExpressionOf(<<"d">>))>>]

\* C23: after `else` a branch opening with `{` is that block and nothing
\* more, a branch opening with `if` is a nested if expression, so that an
\* `else` belongs to the nearest `if` before it, any other branch is a full
\* expression; leaving `then` out before a block gives the same tree.
C23_IfBranches ==
  \A form \in IfForms :
    source = IfText(form) /\ pc \in {"generate", "returned", "threw"}
      => /\ Parsed
         /\ Len(ast.body) = 1
         /\ Shape(ast.body[1].expression) = IfShape(form)

\* an else branch that is a block followed by `+ d`, written without `then`
C23_Witness ==
  /\ Parsed
  /\ source = IfText([keyword |-> FALSE, thenBranch |-> B_block,
                      elseBranch |-> E_block, rest |-> R_plus])
  /\ ast.body[1].expression.type = "BinaryExpression"
  /\ ast.body[1].expression.left.elseBranch.type = "BlockExpression"

\* the token of the parsed stream that starts at a location
TokenAt(loc) ==
  CHOOSE i \in 1..Len(parser.tokens) : parser.tokens[i].loc = loc

\* the first PIPE token after the one that opens a lambda
ClosingBar(open) ==
  CHOOSE i \in (open + 1)..Len(parser.tokens) :
    /\ parser.tokens[i].type = "PIPE"
    /\ \A j \in (open + 1)..(i - 1) : parser.tokens[j].type # "PIPE"

\* C24: the parser tells `|` from `|>`: the operator of every PipeExpression
\* is a token written `|>`, and the parameter list of every Lambda is opened
\* and closed by tokens written `|`; so `a | f` and `|x|> f` do not parse.
C24_BarLexemes ==
  Parsed =>
    \A i \in 1..Len(NodeList(ast)) :
      LET node == NodeList(ast)[i]
      IN /\ node.type = "PipeExpression"
              => parser.tokens[TokenAt(node.loc)].value = <<"|", ">">>
         /\ node.type = "Lambda"
              => /\ parser.tokens[TokenAt(node.loc)].value = <<"|">>
                 /\ parser.tokens[ClosingBar(TokenAt(node.loc))].value
                      = <<"|">>

\* lists that are not of the form item (`,` item)*
MalformedLists ==
  {P_leadingCall, P_leadingArray, P_leadingFn, P_leadingLambda,
   P_trailingCall, P_doubleComma}

\* the number of items of every list in the tree
ListLengths ==
  [i \in 1..Len(NodeList(ast)) |->
     LET node == NodeList(ast)[i]
     IN CASE node.type = "CallExpression" -> Len(node.args)
          [] node.type = "ArrayLiteral" -> Len(node.elements)
          [] node.type \in {"Lambda", "FunctionDeclaration"} ->
               Len(node.params)
          [] OTHER -> 0]

\* C25: a list of parameters, arguments or elements with a leading comma, a
\* trailing comma or two commas in a row is rejected with a syntax error; a
\* list that is accepted has as many items in the tree as were written.
C25_CommaLists ==
  /\ source \in MalformedLists /\ pc \in {"generate", "returned", "threw"}
       => pc = "threw" /\ error.name = "PiperError"
  /\ source = P_callNested /\ Parsed
       => ListLengths = <<0, 0, 2, 0, 1, 0, 0, 1, 0, 0>>


\* a block generated for its value: every block but the body of a loop, of
\* a block-style function or of a lambda, whose text is an immediately
\* invoked closure
IsClosureBlock(parent, child) ==
  /\ child.type = "BlockExpression"
  /\ ~IsBlockBody(parent, child)
  /\ parent.type # "Lambda"
  /\ ExpressionText(child, 0) =
       "(() => {\n" \o ClosureBody(child.statements, 1) \o "})()"

\* a `return` at or below the node, outside any nested function, that the
\* generator writes inside a closure of that kind
RECURSIVE ReturnInClosure(_, _)
ReturnInClosure(node, inside) ==
  CASE node.type \in {"Lambda", "FunctionDeclaration"} -> FALSE
    [] node.type = "ReturnStatement" /\ inside -> TRUE
    [] OTHER ->
         \E i \in 1..Len(Children(node)) :
           ReturnInClosure(Children(node)[i],
                           inside \/ IsClosureBlock(node, Children(node)[i]))

\* C26: a `return` in the body of a block-style function or of a
\* block-bodied lambda, outside any nested function, is generated in that
\* function's own body and never inside an immediately invoked closure made
\* for a block in expression position.
C26_ReturnInOwnBody ==
  Generated =>
    \A i \in 1..Len(NodeList(ast)) :
      LET node == NodeList(ast)[i]
      IN (\/ node.type = "FunctionDeclaration" /\ ~node.isExpression
          \/ node.type = "Lambda" /\ node.body.type = "BlockExpression") =>
           \A s \in 1..Len(node.body.statements) :
             ~ReturnInClosure(node.body.statements[s], FALSE)


\* the result of parseStatement() called with the cursor at each index of
\* the parser's tokens: at the indexes the loops of parse() and of
\* parseBlockExpression() call it, and at every other one
StatementAt(pos) == parseStatement(parser.tokens, pos)

\* C28: every call of parseStatement throws or leaves the cursor at least
\* one token further than it found it, so the statement loops of parse()
\* and of a block come to EOF or `}`.
C28_StatementAdvances ==
  \A pos \in 0..(Len(parser.tokens) - 1) :
    StatementAt(pos).ok => StatementAt(pos).pos > pos

\* `fn h(a, b) { if a { return b }; return }`: the top-level loop and two
\* block loops ran to their end, the statements of the inner block taking
\* the cursor forward; the call at `)` throws
C28_Witness ==
  /\ pc = "generate"
  /\ source = P_fnReturn
  /\ Len(ast.body) = 1
  /\ Len(ast.body[1].body.statements) = 2
  /\ parser.pos = Len(parser.tokens) - 1
  /\ StatementAt(0).ok /\ StatementAt(0).pos = parser.pos
  /\ \E pos \in 1..(Len(parser.tokens) - 1) :
       StatementAt(pos).ok /\ StatementAt(pos).pos > pos + 1
  /\ \E pos \in 1..(Len(parser.tokens) - 1) : ~StatementAt(pos).ok


\* generators a call of generateExpression may find: each level, with
\* nothing or with one line emitted before the call
GeneratorsBefore ==
  {[indentLevel |-> n, output |-> emitted] :
     n \in IndentLevels, emitted \in {<<>>, <<"before;\n">>}}

\* C29: a call of generateExpression that returns leaves the output buffer
\* and indentLevel as it found them; the body of a nested block or of a
\* block-bodied lambda is in the returned string only.
C29_ExpressionFrame ==
  ast.type = "Program" =>
    \A i \in 1..Len(NodeList(ast)) : \A g \in GeneratorsBefore :
      LET node == NodeList(ast)[i]
          call == generateExpression(node, g)
      IN (node.type \in ExpressionTags /\ call.ok) =>
           /\ call.g = g
           /\ call.text = ExpressionText(node, g.indentLevel)

\* `|x| { if x { 1 } }` generated at level 1 after one emitted line: a
\* block-bodied lambda with a block inside its body; both bodies are in
\* the returned string, the emitted line is alone in the buffer
C29_Witness ==
  /\ Generated
  /\ source = P_nestedBodies
  /\ LET call == generateExpression(ast.body[1].expression,
                   [indentLevel |-> 1, output |-> <<"before;\n">>])
     IN /\ call.ok
        /\ call.g = [indentLevel |-> 1, output |-> <<"before;\n">>]
        /\ call.text =
             "((x) => {\n"
               \o "    return (x ? (() => {\n"
               \o "      return 1;\n"
               \o "    })() : undefined);\n"
               \o "  })"


\* the index of the last token, which tokenize() makes the EOF token
FinalEOF == Len(parser.tokens) - 1

\* C30: the parser's cursor is never past the index of the final EOF token:
\* advance() is called on a token that is not EOF only, so it returns a
\* token and the EOF token is never consumed.  The cursor only grows, so the
\* bound on where a routine leaves it, returning or throwing, bounds it
\* throughout.
C30_CursorBound ==
  Len(parser.tokens) > 0 =>
    /\ parser.tokens[Len(parser.tokens)].type = "EOF"
    /\ parser.pos <= FinalEOF
    /\ \A pos \in 0..FinalEOF : StatementAt(pos).pos <= FinalEOF

\* a parse that threw with the cursor on the final EOF token after it had
\* consumed every token before it
C30_Witness ==
  /\ pc = "threw"
  /\ error.name = "PiperError"
  /\ Len(parser.tokens) > 2
  /\ parser.pos = FinalEOF
  /\ Parser_current(parser.tokens, parser.pos).type = "EOF"

====
